---------------------------- MODULE Spec2Model ----------------------------
(***************************************************************************)
(* Name resolution layer of the YNAB MCP server: configuration loading,    *)
(* the API client registry, budget reference resolution and the three      *)
(* name -> id caches (accounts, categories, payees).                       *)
(*                                                                         *)
(* Strings are TLA+ strings; JavaScript's undefined is the reserved value  *)
(* Undefined, which no input string equals.                                *)
(***************************************************************************)
EXTENDS Integers, Sequences, FiniteSets, TLC

VARIABLES
    env,            \* process.env: sequence of <<key, value>> pairs
    configInstance, \* config.js:101  <<>> is null, <<c>> a loaded config
    apiClients,     \* profile-manager.ts:9  Map profile name -> client
    accountCache,   \* config.js:291  Map cacheKey -> bucket
    categoryCache,  \* config.js:292
    payeeCache,     \* config.js:293
    now,            \* Date.now()
    calls,          \* the resolver invocations, one record per caller
    budgetOut,      \* outcome of the last direct resolveBudgetId call
    cfgOut,         \* outcome of the last direct config / registry call
    tool            \* the tool handler in progress: position, inputs, API calls

vars == <<env, configInstance, apiClients, accountCache, categoryCache,
          payeeCache, now, calls, budgetOut, cfgOut, tool>>

-----------------------------------------------------------------------------
(* JavaScript values and string primitives                                 *)

Undefined == "<undefined>"

\* JavaScript truthiness of a string-or-undefined value
Falsy(s) == s = Undefined \/ s = ""

\* a || b
OrElse(a, b) == IF Falsy(a) THEN b ELSE a

CharAt(s, i) == SubSeq(s, i, i)

\* the letters toLowerCase / toUpperCase change (ASCII)
LowerOf ==
    ("A" :> "a") @@ ("B" :> "b") @@ ("C" :> "c") @@ ("D" :> "d") @@
    ("E" :> "e") @@ ("F" :> "f") @@ ("G" :> "g") @@ ("H" :> "h") @@
    ("I" :> "i") @@ ("J" :> "j") @@ ("K" :> "k") @@ ("L" :> "l") @@
    ("M" :> "m") @@ ("N" :> "n") @@ ("O" :> "o") @@ ("P" :> "p") @@
    ("Q" :> "q") @@ ("R" :> "r") @@ ("S" :> "s") @@ ("T" :> "t") @@
    ("U" :> "u") @@ ("V" :> "v") @@ ("W" :> "w") @@ ("X" :> "x") @@
    ("Y" :> "y") @@ ("Z" :> "z")

UpperOf ==
    ("a" :> "A") @@ ("b" :> "B") @@ ("c" :> "C") @@ ("d" :> "D") @@
    ("e" :> "E") @@ ("f" :> "F") @@ ("g" :> "G") @@ ("h" :> "H") @@
    ("i" :> "I") @@ ("j" :> "J") @@ ("k" :> "K") @@ ("l" :> "L") @@
    ("m" :> "M") @@ ("n" :> "N") @@ ("o" :> "O") @@ ("p" :> "P") @@
    ("q" :> "Q") @@ ("r" :> "R") @@ ("s" :> "S") @@ ("t" :> "T") @@
    ("u" :> "U") @@ ("v" :> "V") @@ ("w" :> "W") @@ ("x" :> "X") @@
    ("y" :> "Y") @@ ("z" :> "Z")

LowerChar(c) == IF c \in DOMAIN LowerOf THEN LowerOf[c] ELSE c

UpperChar(c) == IF c \in DOMAIN UpperOf THEN UpperOf[c] ELSE c

RECURSIVE ToLowerCase(_)
ToLowerCase(s) ==
    IF s = "" THEN "" ELSE LowerChar(CharAt(s, 1)) \o ToLowerCase(Tail(s))

RECURSIVE ToUpperCase(_)
ToUpperCase(s) ==
    IF s = "" THEN "" ELSE UpperChar(CharAt(s, 1)) \o ToUpperCase(Tail(s))

RECURSIVE TrimStart(_)
TrimStart(s) ==
    IF s # "" /\ CharAt(s, 1) = " " THEN TrimStart(Tail(s)) ELSE s

RECURSIVE TrimEnd(_)
TrimEnd(s) ==
    IF s # "" /\ CharAt(s, Len(s)) = " "
    THEN TrimEnd(SubSeq(s, 1, Len(s) - 1))
    ELSE s

Trim(s) == TrimEnd(TrimStart(s))

\* s.includes(t)
Includes(s, t) ==
    \E i \in 1..(Len(s) - Len(t) + 1) : SubSeq(s, i, i + Len(t) - 1) = t

\* s.startsWith(t)
StartsWith(s, t) == Len(s) >= Len(t) /\ SubSeq(s, 1, Len(t)) = t

\* index of the first occurrence of the one-character separator, 0 if none
IndexOf(s, sep) ==
    IF Includes(s, sep)
    THEN CHOOSE i \in 1..Len(s) :
            /\ CharAt(s, i) = sep
            /\ \A j \in 1..(i - 1) : CharAt(s, j) # sep
    ELSE 0

\* s.split(sep) for a one-character separator
RECURSIVE Split(_, _)
Split(s, sep) ==
    LET i == IndexOf(s, sep) IN
    IF i = 0 THEN <<s>>
    ELSE <<SubSeq(s, 1, i - 1)>> \o Split(SubSeq(s, i + 1, Len(s)), sep)

\* xs.join(sep)
RECURSIVE Join(_, _)
Join(xs, sep) ==
    IF xs = <<>> THEN ""
    ELSE IF Len(xs) = 1 THEN xs[1]
    ELSE xs[1] \o sep \o Join(Tail(xs), sep)

\* the result of a call that returns a value or throws
Ok(v) == [ok |-> TRUE, val |-> <<v>>, err |-> <<>>]
Thrown(e) == [ok |-> FALSE, val |-> <<>>, err |-> <<e>>]

\* a thrown Error: its kind, the reference and profile it quotes, and the
\* names it lists after "Available:" (listed = FALSE when it lists none)
Err(type, requested, profile, listed, available) ==
    [type |-> type, requested |-> requested, profile |-> profile,
     listed |-> listed, available |-> available]

-----------------------------------------------------------------------------
(* Insertion-ordered maps (JavaScript Map / plain object): a sequence of    *)
(* records that each carry their key in the field "key".  Setting a key    *)
(* that is present replaces the value and keeps the entry's position.      *)

MapHas(m, k) == \E i \in 1..Len(m) : m[i].key = k

MapIndex(m, k) == CHOOSE i \in 1..Len(m) : m[i].key = k

MapGet(m, k) == m[MapIndex(m, k)]

MapSet(m, k, e) ==
    IF MapHas(m, k) THEN [m EXCEPT ![MapIndex(m, k)] = e] ELSE Append(m, e)

MapKeys(m) == [i \in 1..Len(m) |-> m[i].key]

-----------------------------------------------------------------------------
(* config.js: loadConfig and its helpers                                   *)

\* process.env[key]
EnvGet(e, key) ==
    IF \E i \in 1..Len(e) : e[i][1] = key
    THEN e[CHOOSE i \in 1..Len(e) : e[i][1] = key][2]
    ELSE Undefined

\* const [alias, id] = parts; id is undefined when the pair has no colon
PairOf(parts) ==
    [alias |-> ToLowerCase(Trim(parts[1])),
     id    |-> IF Len(parts) >= 2 THEN Trim(parts[2]) ELSE Undefined]

\* the map/filter of parseBudgetAliases over the split parts of each pair;
\* id.trim() on an undefined id throws a TypeError
ParsePairs(parts) ==
    IF \E i \in 1..Len(parts) : Len(parts[i]) < 2
    THEN Thrown(Err("TypeError", "", "", FALSE, <<>>))
    ELSE Ok(SelectSeq([i \in 1..Len(parts) |-> PairOf(parts[i])],
                      LAMBDA b : b.alias # "" /\ b.id # ""))

SplitPairs(pairs) == [i \in 1..Len(pairs) |-> Split(Trim(pairs[i]), ":")]

parseBudgetAliases(envValue) ==
    IF Falsy(envValue) THEN Ok(<<>>)
    ELSE ParsePairs(SplitPairs(Split(envValue, ",")))

DefaultAccountPrefix == "YNAB_DEFAULT_ACCOUNT_"

\* key.substring(prefix.length).toLowerCase()
AccountAlias(key) ==
    ToLowerCase(SubSeq(key, Len(DefaultAccountPrefix) + 1, Len(key)))

RECURSIVE DefaultAccountsFrom(_, _)
DefaultAccountsFrom(entries, accounts) ==
    IF entries = <<>> THEN accounts
    ELSE DefaultAccountsFrom(Tail(entries),
            IF StartsWith(entries[1][1], DefaultAccountPrefix) /\ ~Falsy(entries[1][2])
            THEN MapSet(accounts, AccountAlias(entries[1][1]),
                        [key |-> AccountAlias(entries[1][1]), value |-> entries[1][2]])
            ELSE accounts)

parseDefaultAccounts(e) == DefaultAccountsFrom(e, <<>>)

\* budgets[0]?.alias
FirstAlias(budgets) == IF budgets = <<>> THEN Undefined ELSE budgets[1].alias

MkProfile(name, token, budgets, defaultAccounts) ==
    [key |-> name, name |-> name, token |-> token, budgets |-> budgets,
     defaultBudget |-> FirstAlias(budgets), defaultAccounts |-> defaultAccounts]

\* the configuration the legacy branch returns
LegacyConfig(token, budgets, defaultAccounts) ==
    Ok([profiles |-> <<MkProfile("default", token, budgets, defaultAccounts)>>,
        defaultProfile |-> "default",
        defaultBudget |-> OrElse(FirstAlias(budgets), "")])

\* the legacy branch given the values it reads from the environment
LegacyWith(token, parsed, budgetId, defaultAccounts) ==
    IF Falsy(token) THEN Thrown(Err("NoProfilesOrToken", "", "", FALSE, <<>>))
    ELSE IF ~parsed.ok THEN parsed
    ELSE LegacyConfig(token,
            IF parsed.val[1] = <<>> /\ ~Falsy(budgetId)
            THEN <<[alias |-> "default", id |-> budgetId]>>
            ELSE parsed.val[1],
            defaultAccounts)

\* the legacy single-profile branch of loadConfig
LoadLegacy(e, defaultAccounts) ==
    LegacyWith(EnvGet(e, "YNAB_API_TOKEN"),
               parseBudgetAliases(EnvGet(e, "YNAB_BUDGET_ALIASES")),
               EnvGet(e, "YNAB_BUDGET_ID"), defaultAccounts)

\* the loop over profileNames of loadConfig
RECURSIVE BuildProfiles(_, _, _, _)
RECURSIVE BuildOne(_, _, _, _, _, _)
BuildOne(names, e, defaultAccounts, profiles, token, parsed) ==
    IF Falsy(token) THEN BuildProfiles(Tail(names), e, defaultAccounts, profiles)
    ELSE IF ~parsed.ok THEN parsed
    ELSE BuildProfiles(Tail(names), e, defaultAccounts,
            MapSet(profiles, names[1],
                   MkProfile(names[1], token, parsed.val[1], defaultAccounts)))

BuildProfiles(names, e, defaultAccounts, profiles) ==
    IF names = <<>> THEN Ok(profiles)
    ELSE BuildOne(names, e, defaultAccounts, profiles,
            EnvGet(e, "YNAB_TOKEN_" \o ToUpperCase(names[1])),
            parseBudgetAliases(EnvGet(e, "YNAB_BUDGETS_" \o ToUpperCase(names[1]))))

\* value?.toLowerCase()
LowerIfDefined(value) == IF value = Undefined THEN Undefined ELSE ToLowerCase(value)

\* profiles[name]?.defaultBudget
ProfileDefaultBudget(profiles, name) ==
    IF MapHas(profiles, name) THEN MapGet(profiles, name).defaultBudget ELSE Undefined

\* defaultBudget of the multi-profile branch of loadConfig
ConfigDefaultBudget(e, profiles, defaultProfile) ==
    OrElse(LowerIfDefined(EnvGet(e, "YNAB_DEFAULT_BUDGET")),
           OrElse(ProfileDefaultBudget(profiles, defaultProfile), ""))

\* defaultProfile of the multi-profile branch of loadConfig
ConfigDefaultProfile(e, profileNames) ==
    OrElse(LowerIfDefined(EnvGet(e, "YNAB_DEFAULT_PROFILE")), profileNames[1])

MultiConfig(e, profiles, defaultProfile) ==
    Ok([profiles |-> profiles,
        defaultProfile |-> defaultProfile,
        defaultBudget |-> ConfigDefaultBudget(e, profiles, defaultProfile)])

\* the multi-profile branch once the profiles are built
MultiWith(e, profileNames, built) ==
    IF ~built.ok THEN built
    ELSE IF built.val[1] = <<>>
    THEN Thrown(Err("NoValidProfiles", "", "", FALSE, <<>>))
    ELSE MultiConfig(e, built.val[1], ConfigDefaultProfile(e, profileNames))

\* process.env.YNAB_PROFILES?.split(',').map(p => p.trim().toLowerCase()) || []
ProfileNamesOf(parts) == [i \in 1..Len(parts) |-> ToLowerCase(Trim(parts[i]))]

ProfileNames(raw) ==
    IF raw = Undefined THEN <<>> ELSE ProfileNamesOf(Split(raw, ","))

LoadWith(e, profileNames, defaultAccounts) ==
    IF Len(profileNames) = 0 THEN LoadLegacy(e, defaultAccounts)
    ELSE MultiWith(e, profileNames,
                   BuildProfiles(profileNames, e, defaultAccounts, <<>>))

loadConfig(e) ==
    LoadWith(e, ProfileNames(EnvGet(e, "YNAB_PROFILES")), parseDefaultAccounts(e))

\* faulty variant: the configuration is rebuilt on every call
getConfigFresh(ci, e) == loadConfig(e)

\* getConfig: the value returned (or the error thrown) given the singleton
getConfig(ci, e) == IF ci # <<>> THEN Ok(ci[1]) ELSE loadConfig(e)

\* the singleton after a getConfig call that gave c
ConfigAfter(ci, c) == IF c.ok THEN c.val ELSE ci

\* config.profiles[name], or the "not found" error
ProfileNamed(config, name) ==
    IF MapHas(config.profiles, name)
    THEN Ok(MapGet(config.profiles, name))
    ELSE Thrown(Err("ProfileNotFound", name, "", TRUE, MapKeys(config.profiles)))

\* getProfile(profileName), c being what its getConfig() call gives
getProfile(c, profileName) ==
    IF ~c.ok THEN c
    ELSE ProfileNamed(c.val[1],
                      OrElse(LowerIfDefined(profileName), c.val[1].defaultProfile))

-----------------------------------------------------------------------------
(* profile-manager.ts                                                      *)

\* faulty variant: the length test of the shape heuristic set above the length of an id
LooksLikeIdLong(ref) == Includes(ref, "-") /\ Len(ref) > 36

\* the identifier-shape test used by all four resolvers
LooksLikeId(ref) == Includes(ref, "-") /\ Len(ref) > 30

\* profile.budgets.find(b => b.alias === normalizedRef)
FindAlias(budgets, normalizedRef) ==
    IF \E i \in 1..Len(budgets) : budgets[i].alias = normalizedRef
    THEN <<budgets[CHOOSE i \in 1..Len(budgets) :
                /\ budgets[i].alias = normalizedRef
                /\ \A j \in 1..(i - 1) : budgets[j].alias # normalizedRef]>>
    ELSE <<>>

AliasesOf(budgets) == [i \in 1..Len(budgets) |-> budgets[i].alias]

\* faulty variant: the identifier shape and the shortcuts are tested before the aliases
BudgetIdShapeFirst(profile, budgetRef, budgetAlias) ==
    IF LooksLikeId(budgetRef) THEN Ok(budgetRef)
    ELSE IF budgetRef = "last-used" \/ budgetRef = "default" THEN Ok(budgetRef)
    ELSE IF budgetAlias # <<>> THEN Ok(budgetAlias[1].id)
    ELSE Thrown(Err("BudgetNotFound", budgetRef, profile.name, TRUE,
                    AliasesOf(profile.budgets)))

\* resolveBudgetId from the alias lookup on
BudgetIdOfRef(profile, budgetRef, budgetAlias) ==
    IF budgetAlias # <<>> THEN Ok(budgetAlias[1].id)
    ELSE IF LooksLikeId(budgetRef) THEN Ok(budgetRef)
    ELSE IF budgetRef = "last-used" \/ budgetRef = "default" THEN Ok(budgetRef)
    ELSE Thrown(Err("BudgetNotFound", budgetRef, profile.name, TRUE,
                    AliasesOf(profile.budgets)))

\* resolveBudgetId once the profile and the configuration are in hand
BudgetIdFor(profile, config, budgetRef) ==
    IF ~Falsy(budgetRef)
    THEN BudgetIdOfRef(profile, budgetRef,
                       FindAlias(profile.budgets, ToLowerCase(budgetRef)))
    ELSE IF Falsy(OrElse(profile.defaultBudget, config.defaultBudget))
    THEN Thrown(Err("NoBudgetConfigured", "", profile.name, FALSE, <<>>))
    ELSE BudgetIdOfRef(profile, OrElse(profile.defaultBudget, config.defaultBudget),
            FindAlias(profile.budgets,
                      ToLowerCase(OrElse(profile.defaultBudget, config.defaultBudget))))

BudgetIdWith(prof, c, budgetRef) ==
    IF ~prof.ok THEN prof ELSE BudgetIdFor(prof.val[1], c.val[1], budgetRef)

\* resolveBudgetId(budgetRef, profileName), c being what getConfig() gives
resolveBudgetId(c, budgetRef, profileName) ==
    BudgetIdWith(getProfile(c, profileName), c, budgetRef)

\* faulty variant: a client is constructed on every call
ClientsAlways(clients, profile) ==
    Append(clients, [key |-> profile.name, token |-> profile.token])

\* getApiClient: the registry after the call (one client per profile.name)
ClientsAfter(clients, profile) ==
    IF MapHas(clients, profile.name) THEN clients
    ELSE Append(clients, [key |-> profile.name, token |-> profile.token])

-----------------------------------------------------------------------------
(* config.js (resolver): the three caches                                  *)

CACHE_TTL == 5 * 60 * 1000

getCacheKey(profile, budgetId) == profile \o ":" \o budgetId

normalizeForSearch(name) == Trim(ToLowerCase(name))

Kinds == {"account", "category", "payee"}

\* Map.get / Map.set on a cache: a function from cache key to bucket
CacheHas(cache, key) == key \in DOMAIN cache

\* faulty variant: a refresh adds to the bucket in place instead of replacing it
CachePutMerge(cache, key, bucket) ==
    [k \in (DOMAIN cache) \cup {key} |->
        IF k # key THEN cache[k]
        ELSE IF key \in DOMAIN cache
        THEN bucket \o SelectSeq(cache[key],
                 LAMBDA e : \A i \in 1..Len(bucket) : bucket[i].key # e.key)
        ELSE bucket]

CachePut(cache, key, bucket) ==
    [k \in (DOMAIN cache) \cup {key} |-> IF k = key THEN bucket ELSE cache[k]]

\* faulty variant: no caching, every call on a non-empty bucket refreshes
NeedsRefreshAlways(cache, key, t) ==
    \/ ~CacheHas(cache, key)
    \/ Len(cache[key]) > 0

\* faulty variant: the bucket already counts as stale when exactly TTL has passed
NeedsRefreshEager(cache, key, t) ==
    \/ ~CacheHas(cache, key)
    \/ /\ Len(cache[key]) > 0
       /\ t - cache[key][1].timestamp >= CACHE_TTL

\* the refresh condition of the three resolvers
\* faulty variant: an empty bucket is refreshed on every call
NeedsRefreshEmpty(cache, key, t) ==
    \/ ~CacheHas(cache, key)
    \/ Len(cache[key]) = 0
    \/ t - cache[key][1].timestamp > CACHE_TTL

NeedsRefresh(cache, key, t) ==
    \/ ~CacheHas(cache, key)
    \/ /\ Len(cache[key]) > 0
       /\ t - cache[key][1].timestamp > CACHE_TTL

Entry(k, id, name, t) == [key |-> k, id |-> id, name |-> name, timestamp |-> t]

\* the loop of resolveAccountId / resolvePayeeId over the listed entities
RECURSIVE BuildFlat(_, _, _)
BuildFlat(entities, t, bucket) ==
    IF entities = <<>> THEN bucket
    ELSE LET x == entities[1]
             k == normalizeForSearch(x.name)
         IN BuildFlat(Tail(entities), t,
                IF ~x.deleted THEN MapSet(bucket, k, Entry(k, x.id, x.name, t))
                ELSE bucket)

\* faulty variant: hidden categories are cached too
RECURSIVE BuildGroupHidden(_, _, _, _)
BuildGroupHidden(groupName, categories, t, bucket) ==
    IF categories = <<>> THEN bucket
    ELSE LET c        == categories[1]
             fullName == groupName \o ": " \o c.name
             kFull    == normalizeForSearch(fullName)
             kBare    == normalizeForSearch(c.name)
             withFull == MapSet(bucket, kFull, Entry(kFull, c.id, fullName, t))
         IN BuildGroupHidden(groupName, Tail(categories), t,
                IF ~c.deleted
                THEN MapSet(withFull, kBare, Entry(kBare, c.id, c.name, t))
                ELSE bucket)

\* faulty variant: a bare name that is already a key keeps its first category
RECURSIVE BuildGroupFirst(_, _, _, _)
BuildGroupFirst(groupName, categories, t, bucket) ==
    IF categories = <<>> THEN bucket
    ELSE LET c        == categories[1]
             fullName == groupName \o ": " \o c.name
             kFull    == normalizeForSearch(fullName)
             kBare    == normalizeForSearch(c.name)
             withFull == MapSet(bucket, kFull, Entry(kFull, c.id, fullName, t))
         IN BuildGroupFirst(groupName, Tail(categories), t,
                IF ~c.deleted /\ ~c.hidden
                THEN (IF MapHas(withFull, kBare) THEN withFull
                      ELSE MapSet(withFull, kBare, Entry(kBare, c.id, c.name, t)))
                ELSE bucket)

\* the inner loop of resolveCategoryId over one group's categories
RECURSIVE BuildGroup(_, _, _, _)
BuildGroup(groupName, categories, t, bucket) ==
    IF categories = <<>> THEN bucket
    ELSE LET c        == categories[1]
             fullName == groupName \o ": " \o c.name
             kFull    == normalizeForSearch(fullName)
             kBare    == normalizeForSearch(c.name)
             withFull == MapSet(bucket, kFull, Entry(kFull, c.id, fullName, t))
         IN BuildGroup(groupName, Tail(categories), t,
                IF ~c.deleted /\ ~c.hidden
                THEN MapSet(withFull, kBare, Entry(kBare, c.id, c.name, t))
                ELSE bucket)

\* the outer loop of resolveCategoryId over the category groups
RECURSIVE BuildCategories(_, _, _)
BuildCategories(groups, t, bucket) ==
    IF groups = <<>> THEN bucket
    ELSE BuildCategories(Tail(groups), t,
            BuildGroup(groups[1].name, groups[1].categories, t, bucket))

\* the bucket a resolver builds from an upstream response
BuildBucket(kind, response, t) ==
    IF kind = "category" THEN BuildCategories(response, t, <<>>)
    ELSE BuildFlat(response, t, <<>>)

\* the fuzzy scan of resolveAccountId / resolveCategoryId: index of the first
\* entry in insertion order that contains the query or is contained in it
FuzzyMatches(bucket, normalized, i) ==
    Includes(bucket[i].key, normalized) \/ Includes(normalized, bucket[i].key)

\* faulty variant: the scan keeps the last match instead of returning at the first
FuzzyIndexLast(bucket, normalized) ==
    IF \E i \in 1..Len(bucket) : FuzzyMatches(bucket, normalized, i)
    THEN CHOOSE i \in 1..Len(bucket) :
            /\ FuzzyMatches(bucket, normalized, i)
            /\ \A j \in (i + 1)..Len(bucket) : ~FuzzyMatches(bucket, normalized, j)
    ELSE 0

FuzzyIndex(bucket, normalized) ==
    IF \E i \in 1..Len(bucket) : FuzzyMatches(bucket, normalized, i)
    THEN CHOOSE i \in 1..Len(bucket) :
            /\ FuzzyMatches(bucket, normalized, i)
            /\ \A j \in 1..(i - 1) : ~FuzzyMatches(bucket, normalized, j)
    ELSE 0

\* faulty variant: the error lists the normalized keys instead of the display names
NamesOfKeys(bucket) == [i \in 1..Len(bucket) |-> bucket[i].key]

NamesOf(bucket) == [i \in 1..Len(bucket) |-> bucket[i].name]

\* faulty variant: the fuzzy scan runs before the exact lookup
LookupFuzzyFirst(bucket, normalized, fuzzy) ==
    IF fuzzy > 0 THEN <<bucket[fuzzy].id>>
    ELSE IF MapHas(bucket, normalized) THEN <<MapGet(bucket, normalized).id>>
    ELSE <<>>

\* faulty variant: no fuzzy scan, an exact miss is a miss
LookupExactOnly(bucket, normalized, fuzzy) ==
    IF MapHas(bucket, normalized) THEN <<MapGet(bucket, normalized).id>>
    ELSE <<>>

\* exact lookup, then the fuzzy scan; <<>> when both miss
Lookup(bucket, normalized, fuzzy) ==
    IF MapHas(bucket, normalized) THEN <<MapGet(bucket, normalized).id>>
    ELSE IF fuzzy > 0 THEN <<bucket[fuzzy].id>>
    ELSE <<>>

FoundOr(found, miss) == IF found # <<>> THEN Ok(found[1]) ELSE miss

\* the search part of resolveAccountId
SearchAccount(bucket, accountRef, normalized) ==
    FoundOr(Lookup(bucket, normalized, FuzzyIndex(bucket, normalized)),
            Thrown(Err("AccountNotFound", accountRef, "", TRUE, NamesOf(bucket))))

\* the search part of resolveCategoryId
SearchCategory(bucket, categoryRef, normalized) ==
    FoundOr(Lookup(bucket, normalized, FuzzyIndex(bucket, normalized)),
            Thrown(Err("CategoryNotFound", categoryRef, "", FALSE, <<>>)))

\* faulty variant: a payee miss returns the normalized reference
SearchPayeeNormalized(bucket, payeeRef, normalized) ==
    IF MapHas(bucket, normalized) THEN Ok(MapGet(bucket, normalized).id)
    ELSE Ok(normalized)

\* the search part of resolvePayeeId: exact lookup only
SearchPayee(bucket, payeeRef, normalized) ==
    FoundOr(Lookup(bucket, normalized, 0), Ok(payeeRef))

Search(kind, bucket, ref) ==
    CASE kind = "account"  -> SearchAccount(bucket, ref, normalizeForSearch(ref))
      [] kind = "category" -> SearchCategory(bucket, ref, normalizeForSearch(ref))
      [] kind = "payee"    -> SearchPayee(bucket, ref, normalizeForSearch(ref))

-----------------------------------------------------------------------------
(* The upstream service: what a listing call may answer                    *)

IdChk    == "aaaaaaaa-0000-4000-8000-000000000001"
IdJoint  == "aaaaaaaa-0000-4000-8000-000000000002"
IdOld    == "aaaaaaaa-0000-4000-8000-000000000003"
IdChkNew == "aaaaaaaa-0000-4000-8000-000000000004"
IdRent   == "cccccccc-0000-4000-8000-000000000001"
IdHid    == "cccccccc-0000-4000-8000-000000000002"
IdFunRent == "cccccccc-0000-4000-8000-000000000003"
IdAcme   == "eeeeeeee-0000-4000-8000-000000000001"
IdGone   == "eeeeeeee-0000-4000-8000-000000000002"

Entity(id, name, deleted) == [id |-> id, name |-> name, deleted |-> deleted]

Category(id, name, deleted, hidden) ==
    [id |-> id, name |-> name, deleted |-> deleted, hidden |-> hidden]

AccountsA == <<Entity(IdJoint, "Joint Chk", FALSE), Entity(IdChk, "Chk", FALSE),
               Entity(IdOld, "Old", TRUE)>>
AccountsB == <<Entity(IdChkNew, "Chk", FALSE), Entity(IdJoint, "Joint Chk", FALSE)>>
AccountsNone == <<Entity(IdOld, "Old", TRUE)>>

CategoriesA ==
    <<[name |-> "Home", categories |->
          <<Category(IdRent, "Rent", FALSE, FALSE), Category(IdHid, "Hid", FALSE, TRUE)>>],
      [name |-> "Fun", categories |-> <<Category(IdFunRent, "Rent", FALSE, FALSE)>>]>>
CategoriesNone ==
    <<[name |-> "Home", categories |-> <<Category(IdHid, "Hid", TRUE, FALSE)>>]>>

PayeesA == <<Entity(IdAcme, "Acme", FALSE), Entity(IdGone, "Gone", TRUE)>>
PayeesNone == <<>>

\* getAccounts / getCategories / getPayees: the responses the service may give
Upstream(kind) ==
    CASE kind = "account"  -> {AccountsA, AccountsB, AccountsNone}
      [] kind = "category" -> {CategoriesA, CategoriesNone}
      [] kind = "payee"    -> {PayeesA, PayeesNone}

-----------------------------------------------------------------------------
(* The resolver calls                                                      *)

NoOut == [ok |-> FALSE, val |-> <<>>, err |-> <<>>]

IdleCall ==
    [pc |-> "idle", kind |-> "", ref |-> "", budgetRef |-> "", profileName |-> "",
     cacheKey |-> "", t |-> 0, nUp |-> 0, out |-> NoOut]

CacheOf(kind) ==
    CASE kind = "account"  -> accountCache
      [] kind = "category" -> categoryCache
      [] kind = "payee"    -> payeeCache

SetCache(kind, c) ==
    /\ accountCache'  = IF kind = "account"  THEN c ELSE accountCache
    /\ categoryCache' = IF kind = "category" THEN c ELSE categoryCache
    /\ payeeCache'    = IF kind = "payee"    THEN c ELSE payeeCache

\* a call that has returned or thrown; t is the Date.now() it read (0 if none)
Done(kind, ref, budgetRef, profileName, key, t, n, out) ==
    [pc |-> "done", kind |-> kind, ref |-> ref, budgetRef |-> budgetRef,
     profileName |-> profileName, cacheKey |-> key, t |-> t, nUp |-> n, out |-> out]

Await(kind, ref, budgetRef, profileName, key, t) ==
    [pc |-> "await", kind |-> kind, ref |-> ref, budgetRef |-> budgetRef,
     profileName |-> profileName, cacheKey |-> key, t |-> t, nUp |-> 1, out |-> NoOut]

\* the cache check and, when no refresh is needed, the search
CheckCache(kind, ref, budgetRef, profileName, key, cache) ==
    IF NeedsRefresh(cache, key, now)
    THEN Await(kind, ref, budgetRef, profileName, key, now)
    ELSE Done(kind, ref, budgetRef, profileName, key, now, 0,
              Search(kind, cache[key], ref))

\* a resolver after its identifier-shape test: getApiClient, resolveBudgetId,
\* the cache key and the cache check; c is what getConfig() gives, prof what
\* getProfile gives, budgetId what resolveBudgetId gives
StartLookup(p, kind, ref, budgetRef, profileName, c, prof, budgetId) ==
    /\ configInstance' = ConfigAfter(configInstance, c)
    /\ apiClients' = IF prof.ok THEN ClientsAfter(apiClients, prof.val[1]) ELSE apiClients
    /\ calls' = [calls EXCEPT ![p] =
            IF ~prof.ok THEN Done(kind, ref, budgetRef, profileName, "", 0, 0, prof)
            ELSE IF ~budgetId.ok
            THEN Done(kind, ref, budgetRef, profileName, "", 0, 0, budgetId)
            ELSE CheckCache(kind, ref, budgetRef, profileName,
                            getCacheKey(OrElse(profileName, "default"), budgetId.val[1]),
                            CacheOf(kind))]

StartWith(p, kind, ref, budgetRef, profileName, c) ==
    StartLookup(p, kind, ref, budgetRef, profileName, c,
                getProfile(c, profileName), resolveBudgetId(c, budgetRef, profileName))

\* resolveAccountId / resolveCategoryId / resolvePayeeId from entry to the
\* first await (or to the return, when no refresh is needed)
StartCall(p, kind, ref, budgetRef, profileName) ==
    /\ calls[p].pc # "await"
    /\ UNCHANGED <<env, now, budgetOut, cfgOut, accountCache, categoryCache, payeeCache>>
    /\ IF LooksLikeId(ref)
       THEN /\ calls' = [calls EXCEPT ![p] =
                            Done(kind, ref, budgetRef, profileName, "", 0, 0, Ok(ref))]
            /\ UNCHANGED <<configInstance, apiClients>>
       ELSE StartWith(p, kind, ref, budgetRef, profileName,
                      getConfig(configInstance, env))

\* a resolver called directly by a caller
Start(p, kind, ref, budgetRef, profileName) ==
    StartCall(p, kind, ref, budgetRef, profileName) /\ UNCHANGED tool

\* faulty variant: the answering request searches the bucket that was in the
\* cache before its own listing arrived
RespondFromCache(p, response) ==
    LET c      == calls[p]
        bucket == BuildBucket(c.kind, response, c.t)
    IN
    /\ c.pc = "await"
    /\ response \in Upstream(c.kind)
    /\ SetCache(c.kind, CachePut(CacheOf(c.kind), c.cacheKey, bucket))
    /\ calls' = [calls EXCEPT ![p] =
                    Done(c.kind, c.ref, c.budgetRef, c.profileName, c.cacheKey, c.t, c.nUp,
                         Search(c.kind,
                                IF CacheHas(CacheOf(c.kind), c.cacheKey)
                                THEN CacheOf(c.kind)[c.cacheKey] ELSE bucket,
                                c.ref))]
    /\ UNCHANGED <<env, configInstance, apiClients, now, budgetOut, cfgOut, tool>>

\* the listing call answers: the resolver rebuilds the bucket and searches it
Respond(p, response) ==
    LET c      == calls[p]
        bucket == BuildBucket(c.kind, response, c.t)
    IN
    /\ c.pc = "await"
    /\ response \in Upstream(c.kind)
    /\ SetCache(c.kind, CachePut(CacheOf(c.kind), c.cacheKey, bucket))
    /\ calls' = [calls EXCEPT ![p] =
                    Done(c.kind, c.ref, c.budgetRef, c.profileName, c.cacheKey, c.t, c.nUp,
                         Search(c.kind, bucket, c.ref))]
    /\ UNCHANGED <<env, configInstance, apiClients, now, budgetOut, cfgOut, tool>>

\* faulty variant: a failed listing call is answered with the reference
RespondErrorSwallowed(p) ==
    LET c == calls[p] IN
    /\ c.pc = "await"
    /\ calls' = [calls EXCEPT ![p] =
                    Done(c.kind, c.ref, c.budgetRef, c.profileName, c.cacheKey, c.t, c.nUp,
                         Ok(c.ref))]
    /\ UNCHANGED <<env, configInstance, apiClients, accountCache, categoryCache,
                   payeeCache, now, budgetOut, cfgOut, tool>>

\* faulty variant: a failed listing call removes the bucket it was to replace
RespondErrorDrop(p) ==
    LET c == calls[p] IN
    /\ c.pc = "await"
    /\ SetCache(c.kind, [k \in (DOMAIN CacheOf(c.kind)) \ {c.cacheKey} |->
                            CacheOf(c.kind)[k]])
    /\ calls' = [calls EXCEPT ![p] =
                    Done(c.kind, c.ref, c.budgetRef, c.profileName, c.cacheKey, c.t, c.nUp,
                         Thrown(Err("Upstream", "", "", FALSE, <<>>)))]
    /\ UNCHANGED <<env, configInstance, apiClients, now, budgetOut, cfgOut, tool>>

\* the listing call fails: the rejection reaches the caller
RespondError(p) ==
    LET c == calls[p] IN
    /\ c.pc = "await"
    /\ calls' = [calls EXCEPT ![p] =
                    Done(c.kind, c.ref, c.budgetRef, c.profileName, c.cacheKey, c.t, c.nUp,
                         Thrown(Err("Upstream", "", "", FALSE, <<>>)))]
    /\ UNCHANGED <<env, configInstance, apiClients, accountCache, categoryCache,
                   payeeCache, now, budgetOut, cfgOut, tool>>

\* clearCaches
clearCaches ==
    /\ accountCache' = <<>>
    /\ categoryCache' = <<>>
    /\ payeeCache' = <<>>
    /\ UNCHANGED <<env, configInstance, apiClients, now, calls, budgetOut, cfgOut, tool>>

-----------------------------------------------------------------------------
(* Time                                                                    *)

MaxSmallTicks == 1
MaxBigTicks == 1

\* the clock moves on by a millisecond
TickSmall ==
    /\ now % CACHE_TTL < MaxSmallTicks
    /\ now' = now + 1
    /\ UNCHANGED <<env, configInstance, apiClients, accountCache, categoryCache,
                   payeeCache, calls, budgetOut, cfgOut, tool>>

\* the clock moves on by the length of the TTL
TickBig ==
    /\ now \div CACHE_TTL < MaxBigTicks
    /\ now' = now + CACHE_TTL
    /\ UNCHANGED <<env, configInstance, apiClients, accountCache, categoryCache,
                   payeeCache, calls, budgetOut, cfgOut, tool>>

-----------------------------------------------------------------------------
(* The sequential workload: one caller, one configured profile             *)

BudgetCad == "11111111-1111-4111-8111-111111111111"
BudgetUsd == "22222222-2222-4222-8222-222222222222"

EnvPersonal ==
    << <<"YNAB_PROFILES", "personal">>,
       <<"YNAB_TOKEN_PERSONAL", "token-personal">>,
       <<"YNAB_BUDGETS_PERSONAL", "cad:" \o BudgetCad \o ",usd:" \o BudgetUsd>>,
       <<"YNAB_DEFAULT_ACCOUNT_CAD", "Chk">> >>

\* the callers of the resolvers; "tool" is the tool handler in progress
Procs == {"p1", "p2", "tool"}

\* a 36-character id, a 30-character reference with a hyphen, and a
\* 31-character reference without one
RefId      == "aaaaaaaa-0000-4000-8000-000000000009"
RefLen30   == "joint-chk-joint-chk-joint-chk-"
RefNoHyphen == "joint chk joint chk joint chk j"

NoBudgetCall == [ref |-> "", profileName |-> "", out |-> NoOut]

\* env is the environment the call ran in
NoCfgCall == [op |-> "", arg |-> "", env |-> <<>>, loaded |-> FALSE, out |-> NoOut]

\* read: the ids the handler has obtained; vals: the amounts it has read
IdleTool == [name |-> "", pc |-> "idle", input |-> <<>>, budgetId |-> "",
             read |-> <<>>, vals |-> <<>>, log |-> <<>>, applied |-> <<>>,
             out |-> NoOut]

Init ==
    /\ env = EnvPersonal
    /\ configInstance = <<>>
    /\ apiClients = <<>>
    /\ accountCache = <<>>
    /\ categoryCache = <<>>
    /\ payeeCache = <<>>
    /\ now = 0
    /\ calls = [p \in Procs |-> IdleCall]
    /\ budgetOut = NoBudgetCall
    /\ cfgOut = NoCfgCall
    /\ tool = IdleTool

\* the calls of the timed workload: <<kind, ref, budgetRef, profileName>>
Workload ==
    {<<"account", " CHK ", Undefined, Undefined>>,
     <<"account", "zzz", Undefined, Undefined>>,
     <<"category", "Rent", Undefined, Undefined>>,
     <<"category", "zzz", Undefined, Undefined>>,
     <<"payee", " ACME ", Undefined, Undefined>>,
     <<"payee", "acm", Undefined, Undefined>>}

Next ==
    \/ \E w \in Workload : Start("p1", w[1], w[2], w[3], w[4])
    \/ \E kind \in Kinds : \E r \in Upstream(kind) : Respond("p1", r)
    \/ RespondError("p1")
    \/ clearCaches
    \/ TickSmall
    \/ TickBig

\* sequential resolutions while the clock runs
Spec == Init /\ [][Next]_vars

\* the references of the matching workload, per kind
Refs(kind) ==
    CASE kind = "account"  -> {" CHK ", "Joint Chk", "hk", "Chk Plus", "zzz", RefId, RefLen30}
      [] kind = "category" -> {"Rent", "Home: RENT", "ent", "zzz", RefId}
      [] kind = "payee"    -> {" ACME ", "acm", " Zed ", RefNoHyphen, RefId}

MatchWorkload ==
    UNION {{<<kind, ref, Undefined, Undefined>> : ref \in Refs(kind)} : kind \in Kinds}
    \cup {<<"account", " CHK ", "usd", Undefined>>,
          <<"account", "zzz", "nope", Undefined>>,
          <<"payee", "acm", Undefined, "nobody">>,
          <<"account", RefId, Undefined, "nobody">>,
          <<"payee", RefId, "nope", Undefined>>,
          <<"category", RefId, "nope", "nobody">>}

MatchNext ==
    \/ \E w \in MatchWorkload : Start("p1", w[1], w[2], w[3], w[4])
    \/ \E kind \in Kinds : \E r \in Upstream(kind) : Respond("p1", r)
    \/ RespondError("p1")
    \/ clearCaches

\* sequential resolutions of many references within one millisecond
MatchSpec == Init /\ [][MatchNext]_vars

-----------------------------------------------------------------------------
(* Properties                                                              *)

\* the TTL the documentation states: 5 minutes, in milliseconds
TtlMs == 300000

\* the caller of the sequential workloads, before and after a step
Caller == calls["p1"]
CallerNext == calls'["p1"]

CacheOfNext(kind) ==
    CASE kind = "account"  -> accountCache'
      [] kind = "category" -> categoryCache'
      [] kind = "payee"    -> payeeCache'

\* lowercased and trimmed
Norm(ref) == Trim(ToLowerCase(ref))

\* a step in which the caller enters a resolver and gets as far as its cache
\* check, the bucket of the call being present and non-empty
EntersOnNonEmpty ==
    /\ Caller.pc # "await"
    /\ CallerNext # Caller
    /\ CallerNext.cacheKey # ""
    /\ CacheHas(CacheOf(CallerNext.kind), CallerNext.cacheKey)
    /\ Len(CacheOf(CallerNext.kind)[CallerNext.cacheKey]) > 0

\* the timestamp the bucket of the entering call carries
BucketTime == CacheOf(CallerNext.kind)[CallerNext.cacheKey][1].timestamp

\* the bucket of the entering call holds an entry for exactly this name
ExactEntry(bucket, ref, i) == i \in 1..Len(bucket) /\ bucket[i].key = Norm(ref)

C1_Step ==
    (EntersOnNonEmpty /\ now - BucketTime <= TtlMs) =>
        /\ CallerNext.pc = "done"
        /\ CallerNext.nUp = 0
        /\ UNCHANGED <<accountCache, categoryCache, payeeCache>>
        /\ \A i \in 1..Len(CacheOf(CallerNext.kind)[CallerNext.cacheKey]) :
             ExactEntry(CacheOf(CallerNext.kind)[CallerNext.cacheKey], CallerNext.ref, i)
             => CallerNext.out = Ok(CacheOf(CallerNext.kind)[CallerNext.cacheKey][i].id)
        /\ (/\ Caller.pc = "done" /\ Caller.out.ok
            /\ Caller.kind = CallerNext.kind
            /\ Caller.cacheKey = CallerNext.cacheKey
            /\ Caller.ref = CallerNext.ref)
           => CallerNext.out = Caller.out

\* C1: once a bucket is populated with timestamp t, a sequential resolution at
\* a time now with now - t <= TTL completes without an upstream listing call
\* and without touching the caches; for a name the bucket holds exactly it
\* returns that entry's id, and it returns what the previous resolution of
\* the same name in the same bucket returned.
C1_IdempotentWithinTtl == [][C1_Step]_vars

\* a resolution of " CHK " answered from a bucket fetched exactly TTL earlier
C1_Witness ==
    /\ Caller.pc = "done" /\ Caller.kind = "account" /\ Caller.ref = " CHK "
    /\ Caller.nUp = 0 /\ Caller.t = TtlMs /\ now = TtlMs
    /\ CacheHas(accountCache, Caller.cacheKey)
    /\ accountCache[Caller.cacheKey] # <<>>
    /\ accountCache[Caller.cacheKey][1].timestamp = 0
    /\ Caller.out \in {Ok(IdChk), Ok(IdChkNew)}

\* a step in which the listing call of the caller answers
Answers == Caller.pc = "await" /\ CallerNext.pc = "done" /\ CallerNext.out.ok

C2_Step ==
    /\ EntersOnNonEmpty =>
        /\ (CallerNext.pc = "await") <=> (now - BucketTime > TtlMs)
        /\ CallerNext.pc = "await" => (CallerNext.nUp = 1 /\ CallerNext.t = now)
        /\ CallerNext.pc = "done" => CallerNext.nUp = 0
    /\ Answers =>
        /\ CallerNext.nUp = 1
        /\ CacheHas(CacheOfNext(Caller.kind), Caller.cacheKey)
        /\ \A i \in 1..Len(CacheOfNext(Caller.kind)[Caller.cacheKey]) :
             CacheOfNext(Caller.kind)[Caller.cacheKey][i].timestamp = Caller.t

\* C2: a request that finds a non-empty bucket with timestamp t at time now
\* issues a refresh if and only if now - t > TTL (none at now - t = TTL); the
\* refreshing request issues exactly one listing call, and answers only after
\* that call has answered and the bucket has been replaced.
C2_RefreshIffStale == [][C2_Step]_vars

\* a request waiting for its listing call, issued TTL + 1 after the bucket's
\* timestamp, the stale non-empty bucket still in place
C2_Witness ==
    /\ Caller.pc = "await" /\ Caller.nUp = 1 /\ Caller.t = TtlMs + 1
    /\ CacheHas(CacheOf(Caller.kind), Caller.cacheKey)
    /\ CacheOf(Caller.kind)[Caller.cacheKey] # <<>>
    /\ CacheOf(Caller.kind)[Caller.cacheKey][1].timestamp = 0

-----------------------------------------------------------------------------
(* Matching                                                                *)

\* the length a reference must exceed to count as an identifier
IdShapeLen == 30

IdShaped(ref) ==
    /\ Len(ref) > IdShapeLen
    /\ \E i \in 1..Len(ref) : CharAt(ref, i) = "-"

C3_Step ==
    (Caller.pc # "await" /\ CallerNext # Caller /\ IdShaped(CallerNext.ref)) =>
        /\ CallerNext.pc = "done"
        /\ CallerNext.out = Ok(CallerNext.ref)
        /\ CallerNext.nUp = 0
        /\ UNCHANGED <<accountCache, categoryCache, payeeCache>>

\* C3: a resolver of any kind given a reference with a hyphen and more than 30
\* characters returns it unchanged in the same step, issues no upstream call
\* and leaves the three caches as they are, whatever budget and profile
\* arguments come with it.
C3_IdPassthrough == [][C3_Step]_vars

\* an id passed through with an unknown profile and an unknown budget, all
\* three caches holding a non-empty bucket
C3_Witness ==
    /\ Caller.pc = "done" /\ Caller.kind = "category" /\ Caller.ref = RefId
    /\ Caller.budgetRef = "nope" /\ Caller.profileName = "nobody"
    /\ Caller.out = Ok(RefId) /\ Caller.nUp = 0
    /\ \E k \in DOMAIN accountCache : accountCache[k] # <<>>
    /\ \E k \in DOMAIN categoryCache : categoryCache[k] # <<>>
    /\ \E k \in DOMAIN payeeCache : payeeCache[k] # <<>>

\* the caller's last call searched a bucket, and that bucket is still in place
Searched ==
    /\ Caller.pc = "done"
    /\ Caller.cacheKey # ""
    /\ Caller.out.ok \/ Caller.out.err[1].type # "Upstream"
    /\ CacheHas(CacheOf(Caller.kind), Caller.cacheKey)

SearchedBucket == CacheOf(Caller.kind)[Caller.cacheKey]

HasExact == \E i \in 1..Len(SearchedBucket) : ExactEntry(SearchedBucket, Caller.ref, i)

\* entry i contains the normalized reference or is contained in it
Matches(bucket, ref, i) ==
    Includes(bucket[i].key, Norm(ref)) \/ Includes(Norm(ref), bucket[i].key)

FirstMatch(bucket, ref, i) ==
    /\ i \in 1..Len(bucket)
    /\ Matches(bucket, ref, i)
    /\ \A j \in 1..(i - 1) : ~Matches(bucket, ref, j)

HasMatch == \E i \in 1..Len(SearchedBucket) : Matches(SearchedBucket, Caller.ref, i)

\* C4: when the normalized reference equals a key of the bucket, the call
\* returns that key's id, also when an earlier key contains the reference or
\* is contained in it.
C4_ExactFirst ==
    Searched =>
        \A i \in 1..Len(SearchedBucket) :
            ExactEntry(SearchedBucket, Caller.ref, i)
            => Caller.out = Ok(SearchedBucket[i].id)

\* " CHK " resolved to the id of "Chk" in a bucket whose first key,
\* "joint chk", contains the normalized reference
C4_Witness ==
    /\ Searched /\ Caller.kind = "account" /\ Caller.ref = " CHK "
    /\ Len(SearchedBucket) = 2
    /\ SearchedBucket[1].key = "joint chk" /\ SearchedBucket[2].key = "chk"
    /\ Caller.out = Ok(SearchedBucket[2].id)

\* what the fuzzy step gives: the first match in insertion order, else a miss
FuzzyOutcome ==
    /\ \A i \in 1..Len(SearchedBucket) :
          FirstMatch(SearchedBucket, Caller.ref, i)
          => Caller.out = Ok(SearchedBucket[i].id)
    /\ ~HasMatch =>
          IF Caller.kind = "payee" THEN Caller.out = Ok(Caller.ref) ELSE ~Caller.out.ok

DisplayNames(bucket) == [i \in 1..Len(bucket) |-> bucket[i].name]

TotalMiss == Searched /\ ~HasExact /\ ~HasMatch

NotFoundOf(kind) == IF kind = "account" THEN "AccountNotFound" ELSE "CategoryNotFound"

\* C7 as stated: an account or category total miss fails with a not-found
\* error that carries the requested reference and the display names of all
\* entries of the bucket.
C7_MissListsNames ==
    (TotalMiss /\ Caller.kind \in {"account", "category"}) =>
        /\ ~Caller.out.ok
        /\ Caller.out.err[1].type = NotFoundOf(Caller.kind)
        /\ Caller.out.err[1].requested = Caller.ref
        /\ Caller.out.err[1].listed
        /\ Caller.out.err[1].available = DisplayNames(SearchedBucket)

\* C7: an account or category total miss fails with a not-found error that
\* carries the requested reference; the account error also lists the display
\* names of all entries of the bucket, the category error lists no names.
C7_MissError ==
    (TotalMiss /\ Caller.kind \in {"account", "category"}) =>
        /\ ~Caller.out.ok
        /\ Caller.out.err[1].type = NotFoundOf(Caller.kind)
        /\ Caller.out.err[1].requested = Caller.ref
        /\ Caller.kind = "account" =>
              /\ Caller.out.err[1].listed
              /\ Caller.out.err[1].available = DisplayNames(SearchedBucket)
        /\ Caller.kind = "category" => ~Caller.out.err[1].listed

\* "zzz" missed in an account bucket of two entries, both named in the error
C7_Witness ==
    /\ TotalMiss /\ Caller.kind = "account" /\ Caller.ref = "zzz"
    /\ ~Caller.out.ok
    /\ Caller.out.err[1].available = <<"Joint Chk", "Chk">>

\* the caller's last call fetched a listing that left its bucket empty
FetchedEmpty ==
    /\ Caller.pc = "done" /\ Caller.nUp = 1 /\ Caller.out.ok
    /\ CacheHas(CacheOf(Caller.kind), Caller.cacheKey)
    /\ CacheOf(Caller.kind)[Caller.cacheKey] = <<>>

\* the caller enters a resolver again, on the same bucket
EntersSameBucket ==
    /\ CallerNext # Caller
    /\ CallerNext.kind = Caller.kind
    /\ CallerNext.cacheKey = Caller.cacheKey

C10_Step ==
    (FetchedEmpty /\ EntersSameBucket) =>
        /\ now - Caller.t <= TtlMs => (CallerNext.pc = "done" /\ CallerNext.nUp = 0)
        /\ now - Caller.t > TtlMs => (CallerNext.pc = "await" /\ CallerNext.nUp = 1)

\* C10: after a listing that yields no cacheable entity the bucket is cached
\* empty: the next resolution against it issues no upstream call while the
\* TTL has not elapsed since the fetch, and re-queries upstream once it has.
C10_EmptyBucketExpires == [][C10_Step]_vars

-----------------------------------------------------------------------------
(* Budget references: resolveBudgetId called directly, over several        *)
(* environments                                                            *)

\* resolveBudgetId(budgetRef, profileName) called by a tool handler
CallResolveBudgetId(budgetRef, profileName) ==
    /\ budgetOut' = [ref |-> budgetRef, profileName |-> profileName,
                     out |-> resolveBudgetId(getConfig(configInstance, env),
                                             budgetRef, profileName)]
    /\ configInstance' = ConfigAfter(configInstance, getConfig(configInstance, env))
    /\ UNCHANGED <<env, apiClients, accountCache, categoryCache, payeeCache, now, calls,
                   cfgOut, tool>>

BudgetWork == "33333333-3333-4333-8333-333333333333"

\* an alias that has the shape of an identifier
AliasLikeId == "bbbbbbbb-0000-4000-8000-00000000000b"

\* as EnvPersonal, with upper case in the alias list and a default budget
EnvDefaultUsd ==
    << <<"YNAB_PROFILES", "Personal">>,
       <<"YNAB_TOKEN_PERSONAL", "token-personal">>,
       <<"YNAB_BUDGETS_PERSONAL", "CAD:" \o BudgetCad \o ", usd :" \o BudgetUsd>>,
       <<"YNAB_DEFAULT_BUDGET", "USD">> >>

\* two profiles, the second without budgets
EnvTwoProfiles ==
    << <<"YNAB_PROFILES", "personal,work">>,
       <<"YNAB_TOKEN_PERSONAL", "token-personal">>,
       <<"YNAB_TOKEN_WORK", "token-work">>,
       <<"YNAB_BUDGETS_PERSONAL", "cad:" \o BudgetCad>> >>

\* a profile without budgets and a default budget that is an upstream shortcut
EnvShortcutDefault ==
    << <<"YNAB_PROFILES", "work">>,
       <<"YNAB_TOKEN_WORK", "token-work">>,
       <<"YNAB_DEFAULT_BUDGET", "last-used">> >>

\* aliases that look like an identifier or like an upstream shortcut
EnvOddAliases ==
    << <<"YNAB_PROFILES", "work">>,
       <<"YNAB_TOKEN_WORK", "token-work">>,
       <<"YNAB_BUDGETS_WORK",
         AliasLikeId \o ":" \o BudgetWork \o ",last-used:" \o BudgetUsd>> >>

\* single-profile mode with YNAB_BUDGET_ID: the alias "default"
EnvLegacyId ==
    << <<"YNAB_API_TOKEN", "token-legacy">>, <<"YNAB_BUDGET_ID", BudgetCad>> >>

\* single-profile mode without any budget
EnvLegacyBare == << <<"YNAB_API_TOKEN", "token-legacy">> >>

BudgetEnvs ==
    {EnvPersonal, EnvDefaultUsd, EnvTwoProfiles, EnvShortcutDefault, EnvOddAliases,
     EnvLegacyId, EnvLegacyBare}

BudgetRefs ==
    {Undefined, "", "cad", "Cad", "usd", "nope", "default", "Default", "last-used",
     RefId, RefLen30, AliasLikeId, ToUpperCase(AliasLikeId)}

ProfileRefs == {Undefined, "personal", "WORK", "nobody"}

BudgetInit ==
    /\ env \in BudgetEnvs
    /\ configInstance = <<>>
    /\ apiClients = <<>>
    /\ accountCache = <<>>
    /\ categoryCache = <<>>
    /\ payeeCache = <<>>
    /\ now = 0
    /\ calls = [p \in Procs |-> IdleCall]
    /\ budgetOut = NoBudgetCall
    /\ cfgOut = NoCfgCall
    /\ tool = IdleTool

BudgetNext ==
    \E budgetRef \in BudgetRefs, profileName \in ProfileRefs :
        CallResolveBudgetId(budgetRef, profileName)

BudgetSpec == BudgetInit /\ [][BudgetNext]_vars

-----------------------------------------------------------------------------
(* Properties of budget resolution                                         *)

BudgetCalled == budgetOut.out # NoOut

\* the configuration the call saw
SeenConfig == getConfig(configInstance, env)

Absent(value) == value = Undefined \/ value = ""

\* (1) the profile the call names, or the default one
WantedProfile ==
    IF Absent(budgetOut.profileName) THEN SeenConfig.val[1].defaultProfile
    ELSE ToLowerCase(budgetOut.profileName)

ProfilesFound ==
    {SeenConfig.val[1].profiles[i] : i \in
        {j \in 1..Len(SeenConfig.val[1].profiles) :
            SeenConfig.val[1].profiles[j].key = WantedProfile}}

TheProfile == CHOOSE prof \in ProfilesFound : TRUE

\* (2) the reference, or the profile's default alias, or the global one
EffectiveRef ==
    IF ~Absent(budgetOut.ref) THEN budgetOut.ref
    ELSE IF ~Absent(TheProfile.defaultBudget) THEN TheProfile.defaultBudget
    ELSE SeenConfig.val[1].defaultBudget

\* (3) the positions of the aliases that match without regard to case
AliasHits ==
    {i \in 1..Len(TheProfile.budgets) :
        TheProfile.budgets[i].alias = ToLowerCase(EffectiveRef)}

FirstHit == CHOOSE i \in AliasHits : \A j \in AliasHits : i <= j

HasHyphen(ref) == \E i \in 1..Len(ref) : CharAt(ref, i) = "-"

Returned(value) == budgetOut.out.ok /\ budgetOut.out.val = <<value>>

Failed(type) == ~budgetOut.out.ok /\ budgetOut.out.err[1].type = type

ReferenceOutcome ==
    IF ProfilesFound = {} THEN Failed("ProfileNotFound")
    ELSE IF Absent(EffectiveRef) THEN Failed("NoBudgetConfigured")
    ELSE IF AliasHits # {} THEN Returned(TheProfile.budgets[FirstHit].id)
    ELSE IF HasHyphen(EffectiveRef) /\ Len(EffectiveRef) > IdShapeLen
    THEN Returned(EffectiveRef)
    ELSE IF EffectiveRef \in {"last-used", "default"} THEN Returned(EffectiveRef)
    ELSE /\ Failed("BudgetNotFound")
         /\ budgetOut.out.err[1].requested = EffectiveRef
         /\ budgetOut.out.err[1].available =
                [i \in 1..Len(TheProfile.budgets) |-> TheProfile.budgets[i].alias]

\* C8: resolveBudgetId gives what the ordered algorithm gives: the profile is
\* resolved; an absent reference is replaced by the profile's default alias,
\* else the global one, and the call fails when both are absent; an alias of
\* the profile that matches without regard to case gives its id, before any
\* shape test; else a reference with a hyphen and more than 30 characters is
\* returned unchanged; else 'last-used' and 'default' are returned unchanged;
\* else the call fails with the requested reference and the profile's aliases.
C8_BudgetIdOrder ==
    (BudgetCalled /\ SeenConfig.ok) => ReferenceOutcome

\* an alias that has the shape of an identifier, given in upper case, has
\* resolved to the id configured for it
C8_Witness ==
    /\ BudgetCalled
    /\ budgetOut.ref = ToUpperCase(AliasLikeId)
    /\ ProfilesFound # {}
    /\ AliasHits # {}
    /\ Returned(BudgetWork)

DefaultBudgetVar == EnvGet(env, "YNAB_DEFAULT_BUDGET")

\* C9: when YNAB_DEFAULT_BUDGET is set and the call gives no budget reference,
\* the call resolves the YNAB_DEFAULT_BUDGET alias, not the first alias of the
\* profile.
C9_DefaultBudgetOverrides ==
    (BudgetCalled /\ SeenConfig.ok /\ Absent(budgetOut.ref)
        /\ ~Absent(DefaultBudgetVar)) =>
        budgetOut.out = resolveBudgetId(SeenConfig, DefaultBudgetVar,
                                        budgetOut.profileName)

-----------------------------------------------------------------------------
(* Configuration and client registry: getConfig, getProfile, listProfiles  *)
(* and getApiClient called directly, while the environment may change      *)

\* getConfig()
CallGetConfig ==
    /\ cfgOut' = [op |-> "getConfig", arg |-> "", env |-> env, loaded |-> configInstance = <<>>,
                  out |-> getConfig(configInstance, env)]
    /\ configInstance' = ConfigAfter(configInstance, getConfig(configInstance, env))
    /\ UNCHANGED <<env, apiClients, accountCache, categoryCache, payeeCache, now, calls,
                   budgetOut, tool>>

\* getProfile(profileName)
CallGetProfile(profileName) ==
    /\ cfgOut' = [op |-> "getProfile", arg |-> profileName, env |-> env,
                  loaded |-> configInstance = <<>>,
                  out |-> getProfile(getConfig(configInstance, env), profileName)]
    /\ configInstance' = ConfigAfter(configInstance, getConfig(configInstance, env))
    /\ UNCHANGED <<env, apiClients, accountCache, categoryCache, payeeCache, now, calls,
                   budgetOut, tool>>

\* Object.keys(getConfig().profiles)
ProfileKeys(c) == IF c.ok THEN Ok([keys |-> MapKeys(c.val[1].profiles)]) ELSE c

\* listProfiles()
CallListProfiles ==
    /\ cfgOut' = [op |-> "listProfiles", arg |-> "", env |-> env, loaded |-> configInstance = <<>>,
                  out |-> ProfileKeys(getConfig(configInstance, env))]
    /\ configInstance' = ConfigAfter(configInstance, getConfig(configInstance, env))
    /\ UNCHANGED <<env, apiClients, accountCache, categoryCache, payeeCache, now, calls,
                   budgetOut, tool>>

\* apiClients.get(cacheKey): the instance is identified by its position
ClientAt(clients, key) ==
    [instance |-> MapIndex(clients, key), token |-> MapGet(clients, key).token]

\* getApiClient once getProfile has answered
ApiClientWith(profileName, c, prof) ==
    /\ configInstance' = ConfigAfter(configInstance, c)
    /\ apiClients' = IF prof.ok THEN ClientsAfter(apiClients, prof.val[1]) ELSE apiClients
    /\ cfgOut' = [op |-> "getApiClient", arg |-> profileName, env |-> env,
                  loaded |-> configInstance = <<>>,
                  out |-> IF prof.ok
                          THEN Ok(ClientAt(ClientsAfter(apiClients, prof.val[1]),
                                           prof.val[1].name))
                          ELSE prof]

\* getApiClient(profileName)
CallGetApiClient(profileName) ==
    /\ ApiClientWith(profileName, getConfig(configInstance, env),
                     getProfile(getConfig(configInstance, env), profileName))
    /\ UNCHANGED <<env, accountCache, categoryCache, payeeCache, now, calls,
                   budgetOut, tool>>

\* nothing declared at all
EnvNone == << >>

\* the first declared profile has no token
EnvFirstSkipped ==
    << <<"YNAB_PROFILES", "personal, Work">>,
       <<"YNAB_TOKEN_WORK", "token-work">>,
       <<"YNAB_BUDGETS_WORK", "main:" \o BudgetWork>> >>

\* profiles declared, none with a token
EnvNoTokens ==
    << <<"YNAB_PROFILES", "personal,work">>,
       <<"YNAB_BUDGETS_PERSONAL", "cad:" \o BudgetCad>> >>

\* the default profile names a profile that is not declared
EnvDefaultUnknown ==
    << <<"YNAB_PROFILES", "personal">>,
       <<"YNAB_TOKEN_PERSONAL", "token-personal">>,
       <<"YNAB_DEFAULT_PROFILE", "Ghost">> >>

\* single-profile mode with an alias list whose only pair has no colon
EnvBadAliases ==
    << <<"YNAB_API_TOKEN", "token-legacy">>, <<"YNAB_BUDGET_ALIASES", "cad">> >>

\* an empty profile list next to a single-profile token
EnvEmptyList ==
    << <<"YNAB_PROFILES", "">>, <<"YNAB_API_TOKEN", "token-legacy">> >>

\* the same profile name with another token
EnvOtherToken ==
    << <<"YNAB_PROFILES", "personal">>,
       <<"YNAB_TOKEN_PERSONAL", "token-other">> >>

ConfigEnvs ==
    {EnvPersonal, EnvTwoProfiles, EnvLegacyId, EnvLegacyBare, EnvNone, EnvFirstSkipped,
     EnvNoTokens, EnvDefaultUnknown, EnvBadAliases, EnvEmptyList, EnvOtherToken}

\* the environment of the process is changed (process.env is mutable)
SetEnv(e) ==
    /\ e # env
    /\ env' = e
    /\ UNCHANGED <<configInstance, apiClients, accountCache, categoryCache, payeeCache,
                   now, calls, budgetOut, cfgOut, tool>>

ProfileArgs == {Undefined, "personal", "Personal", "WORK", "default", "nobody"}

ConfigInit ==
    /\ env \in ConfigEnvs
    /\ configInstance = <<>>
    /\ apiClients = <<>>
    /\ accountCache = <<>>
    /\ categoryCache = <<>>
    /\ payeeCache = <<>>
    /\ now = 0
    /\ calls = [p \in Procs |-> IdleCall]
    /\ budgetOut = NoBudgetCall
    /\ cfgOut = NoCfgCall
    /\ tool = IdleTool

ConfigNext ==
    \/ CallGetConfig
    \/ \E profileName \in ProfileArgs : CallGetProfile(profileName)
    \/ CallListProfiles
    \/ \E profileName \in ProfileArgs : CallGetApiClient(profileName)
    \/ \E e \in ConfigEnvs : SetEnv(e)

ConfigSpec == ConfigInit /\ [][ConfigNext]_vars

-----------------------------------------------------------------------------
(* Properties of the configuration and of the client registry              *)

Loaded == configInstance # <<>>

TheConfig == configInstance[1]

ProfileKeySet(config) == {config.profiles[i].key : i \in 1..Len(config.profiles)}

\* C11: a configuration that loadConfig has returned has at least one
\* profile and its defaultProfile names a profile of its profile set, so
\* getProfile() without an argument succeeds.
C11_DefaultProfilePresent ==
    Loaded =>
        /\ ProfileKeySet(TheConfig) # {}
        /\ TheConfig.defaultProfile \in ProfileKeySet(TheConfig)
        /\ (cfgOut.op = "getProfile" /\ Absent(cfgOut.arg)) => cfgOut.out.ok

\* the last direct call was getConfig and ran loadConfig
LoadedNow == cfgOut.op = "getConfig" /\ cfgOut.loaded

ListDeclared == EnvGet(cfgOut.env, "YNAB_PROFILES") # Undefined

DeclaredNames ==
    {ProfileNames(EnvGet(cfgOut.env, "YNAB_PROFILES"))[i] :
        i \in 1..Len(ProfileNames(EnvGet(cfgOut.env, "YNAB_PROFILES")))}

HasToken(name) == ~Absent(EnvGet(cfgOut.env, "YNAB_TOKEN_" \o ToUpperCase(name)))

WithToken == {name \in DeclaredNames : HasToken(name)}

MustFail ==
    \/ ~ListDeclared /\ Absent(EnvGet(cfgOut.env, "YNAB_API_TOKEN"))
    \/ ListDeclared /\ WithToken = {}

\* C12: loadConfig fails exactly when no profile list is declared and no
\* single-profile token is present, or a list is declared and none of its
\* profiles has a token; a declared profile without a token is left out while
\* the others load; with a single-profile token and no declared names it
\* succeeds with the one profile 'default'.
C12_LoadFailsExactly ==
    LoadedNow =>
        /\ ~cfgOut.out.ok <=> MustFail
        /\ (cfgOut.out.ok /\ ListDeclared) =>
              ProfileKeySet(cfgOut.out.val[1]) = WithToken
        /\ (cfgOut.out.ok /\ ~ListDeclared) =>
              ProfileKeySet(cfgOut.out.val[1]) = {"default"}

\* what a direct call must answer when the configuration is config
AnswerFrom(config, op, arg, out) ==
    CASE op = "getConfig"    -> out = Ok(config)
      [] op = "listProfiles" ->
            out = Ok([keys |-> [i \in 1..Len(config.profiles) |-> config.profiles[i].key]])
      [] op = "getProfile"   ->
            out.ok => \E i \in 1..Len(config.profiles) : out.val[1] = config.profiles[i]
      [] OTHER               -> TRUE

C13_Step ==
    Loaded =>
        /\ configInstance' = configInstance
        /\ cfgOut' # cfgOut =>
              /\ ~cfgOut'.loaded
              /\ AnswerFrom(TheConfig, cfgOut'.op, cfgOut'.arg, cfgOut'.out)

\* C13: once getConfig has succeeded, every later getConfig, getProfile and
\* listProfiles call sees the same configuration, loadConfig is not run
\* again, and later changes of the environment have no effect on it.
C13_ConfigMemoized == [][C13_Step]_vars

\* getConfig answered from the singleton in an environment that loadConfig
\* would read differently
C13_Witness ==
    /\ Loaded
    /\ cfgOut.op = "getConfig" /\ ~cfgOut.loaded /\ cfgOut.out = Ok(TheConfig)
    /\ loadConfig(cfgOut.env) # Ok(TheConfig)

\* the canonical name of the profile a getApiClient call names
CanonicalName(config, arg) ==
    IF Absent(arg) THEN config.defaultProfile ELSE ToLowerCase(arg)

C14_Step ==
    \* an entry once stored is never replaced or removed
    /\ Len(apiClients') >= Len(apiClients)
    /\ \A i \in 1..Len(apiClients) : apiClients'[i] = apiClients[i]
    \* at most one client per canonical profile name
    /\ \A i, j \in 1..Len(apiClients') :
          apiClients'[i].key = apiClients'[j].key => i = j
    \* the instance returned is the one stored under the canonical name
    /\ (cfgOut' # cfgOut /\ cfgOut'.op = "getApiClient" /\ cfgOut'.out.ok) =>
          /\ cfgOut'.out.val[1].instance \in 1..Len(apiClients')
          /\ apiClients'[cfgOut'.out.val[1].instance].key =
                CanonicalName(configInstance'[1], cfgOut'.arg)
          /\ \A i \in 1..Len(apiClients) :
                apiClients[i].key = CanonicalName(configInstance'[1], cfgOut'.arg)
                => cfgOut'.out.val[1].instance = i

\* C14: the client registry holds at most one client per canonical profile
\* name; calls naming the same profile in any letter case, or omitting the
\* name when that profile is the default, return the identical instance; an
\* entry once stored is never replaced or removed.
C14_OneClientPerProfile == [][C14_Step]_vars

\* two clients are registered and the last call, naming "WORK" in upper
\* case, was answered with the instance stored earlier under "work"
C14_Witness ==
    /\ Len(apiClients) = 2
    /\ apiClients[1].key = "work"
    /\ cfgOut.op = "getApiClient" /\ cfgOut.arg = "WORK"
    /\ cfgOut.out.ok /\ cfgOut.out.val[1].instance = 1

-----------------------------------------------------------------------------
(* Properties of the buckets                                               *)

\* the categories of a getCategories response, with the name of their group
CategoriesOf(response) ==
    UNION {{[group |-> response[g].name, cat |-> response[g].categories[c]] :
                c \in 1..Len(response[g].categories)} : g \in 1..Len(response)}

\* the ids of all entities of a response
AllIds(kind, response) ==
    IF kind = "category" THEN {x.cat.id : x \in CategoriesOf(response)}
    ELSE {response[i].id : i \in 1..Len(response)}

KeySet(bucket) == {bucket[i].key : i \in 1..Len(bucket)}

\* the listing call of the caller answers and the resolver stores the bucket
Refreshes ==
    /\ Caller.pc = "await" /\ CallerNext.pc = "done"
    /\ CallerNext.out.ok \/ CallerNext.out.err[1].type # "Upstream"

C18_Step ==
    /\ \A kind \in Kinds : \A key \in DOMAIN CacheOfNext(kind) :
          \A i, j \in 1..Len(CacheOfNext(kind)[key]) :
              CacheOfNext(kind)[key][i].timestamp = CacheOfNext(kind)[key][j].timestamp
    /\ Refreshes =>
          /\ CacheHas(CacheOfNext(Caller.kind), Caller.cacheKey)
          /\ \A i \in 1..Len(CacheOfNext(Caller.kind)[Caller.cacheKey]) :
                CacheOfNext(Caller.kind)[Caller.cacheKey][i].timestamp = Caller.t
          /\ \E response \in Upstream(Caller.kind) :
                \A i \in 1..Len(CacheOfNext(Caller.kind)[Caller.cacheKey]) :
                    CacheOfNext(Caller.kind)[Caller.cacheKey][i].id
                        \in AllIds(Caller.kind, response)

\* C18: all entries of one bucket carry the same timestamp, and a refresh
\* replaces the bucket wholesale: the bucket it leaves holds only entities of
\* the response it was built from, none kept from the previous snapshot.
C18_BucketOneSnapshot == [][C18_Step]_vars

\* the account bucket after a refresh at TTL + 1: the new "Chk" account is in
\* it and the one of the earlier listing is not
C18_Witness ==
    /\ Caller.pc = "done" /\ Caller.kind = "account" /\ Caller.nUp = 1
    /\ Caller.t = TtlMs + 1
    /\ CacheHas(accountCache, Caller.cacheKey)
    /\ Len(accountCache[Caller.cacheKey]) = 2
    /\ \A i \in 1..2 : accountCache[Caller.cacheKey][i].timestamp = TtlMs + 1
    /\ \E i \in 1..2 : accountCache[Caller.cacheKey][i].id = IdChkNew
    /\ \A i \in 1..2 : accountCache[Caller.cacheKey][i].id # IdChk

\* the keys of the entities of a response that satisfy keep
KeysOf(kind, response, keep(_)) ==
    IF kind = "category"
    THEN UNION {{Norm(x.group \o ": " \o x.cat.name), Norm(x.cat.name)} :
                    x \in {y \in CategoriesOf(response) : keep(y.cat)}}
    ELSE {Norm(response[i].name) : i \in {j \in 1..Len(response) : keep(response[j])}}

NotDeleted(x) == ~x.deleted

\* not deleted and, for a category, not hidden
Listed(x) == ~x.deleted /\ ("hidden" \in DOMAIN x => ~x.hidden)

\* C19 as stated: every bucket's key set is exactly the normalized names of
\* the entities of a response whose deleted flag is false (for categories the
\* bare and the group-qualified names).
C19_KeysAreUndeleted ==
    \A kind \in Kinds : \A key \in DOMAIN CacheOf(kind) :
        \E response \in Upstream(kind) :
            KeySet(CacheOf(kind)[key]) = KeysOf(kind, response, NotDeleted)

\* C19: every bucket's key set is exactly the normalized names of the
\* entities of a response that are not deleted and, for categories, not
\* hidden (for categories the bare and the group-qualified names).
C19_KeysAreListed ==
    \A kind \in Kinds : \A key \in DOMAIN CacheOf(kind) :
        \E response \in Upstream(kind) :
            KeySet(CacheOf(kind)[key]) = KeysOf(kind, response, Listed)

\* buckets built from listings with a deleted account and a hidden category:
\* neither "old" nor "hid" is a key
C19_Witness ==
    /\ \E key \in DOMAIN accountCache :
          KeySet(accountCache[key]) = {"joint chk", "chk"}
    /\ \E key \in DOMAIN categoryCache :
          KeySet(categoryCache[key]) = {"home: rent", "rent", "fun: rent"}

\* the caller enters a resolver and reaches its cache check, the bucket of
\* the call being cached and empty
EntersOnEmpty ==
    /\ Caller.pc # "await"
    /\ CallerNext # Caller
    /\ CallerNext.cacheKey # ""
    /\ CacheHas(CacheOf(CallerNext.kind), CallerNext.cacheKey)
    /\ CacheOf(CallerNext.kind)[CallerNext.cacheKey] = <<>>

-----------------------------------------------------------------------------
(* Tool handlers.  A handler runs from one await to the next in one step;  *)
(* tool.log lists the API calls it has issued, in order.                   *)

\* one API call: the operation, the budget and entity ids it is given, and
\* the fields of the body it sends
ApiCall(op, budgetId, id, body) ==
    [op |-> op, budgetId |-> budgetId, id |-> id, body |-> body]

\* a handler suspended at an await
Running(name, pc, input, budgetId, read, log) ==
    [name |-> name, pc |-> pc, input |-> input, budgetId |-> budgetId,
     read |-> read, vals |-> <<>>, log |-> log, applied |-> <<>>, out |-> NoOut]

\* a handler that has returned its response
Finished(t, out) == [t EXCEPT !.pc = "done", !.out = out]

ToolError(type, requested) == Thrown(Err(type, requested, "", FALSE, <<>>))

ToolFree == tool.pc \in {"idle", "done"}

\* what an awaited API call may give: an entity, no entity, or a rejection
Gives(ids) ==
    {[kind |-> "entity", id |-> id] : id \in ids}
    \cup {[kind |-> "null", id |-> ""], [kind |-> "reject", id |-> ""]}

-----------------------------------------------------------------------------
(* ApproveTransactionTool.js                                               *)

\* getBudgetId(inputBudgetId)
getBudgetId(inputBudgetId, e) ==
    IF Falsy(OrElse(inputBudgetId, OrElse(EnvGet(e, "YNAB_BUDGET_ID"), "")))
    THEN ToolError("NoBudgetId", "")
    ELSE Ok(OrElse(inputBudgetId, OrElse(EnvGet(e, "YNAB_BUDGET_ID"), "")))

\* input.approved ?? true (approved is <<>> when the input has none)
ApprovedOrTrue(approved) == IF approved = <<>> THEN TRUE ELSE approved[1]

\* faulty variant: the update sends the whole transaction back
ApproveBodyFull(approved) ==
    <<[field |-> "approved", flag |-> ApprovedOrTrue(approved)],
      [field |-> "memo", flag |-> FALSE]>>

\* the body of the update: { transaction: { approved } }
ApproveBody(approved) == <<[field |-> "approved", flag |-> ApprovedOrTrue(approved)]>>

ApproveBegin(input, budgetId) ==
    IF ~budgetId.ok
    THEN Finished(Running("approve", "start", input, "", <<>>, <<>>), budgetId)
    ELSE Running("approve", "get", input, budgetId.val[1], <<>>,
                 <<ApiCall("getTransactionById", budgetId.val[1],
                           input.transactionId, <<>>)>>)

\* execute up to the await of getTransactionById
ApproveStart(input) ==
    /\ ToolFree
    /\ tool' = ApproveBegin(input, getBudgetId(input.budgetId, env))
    /\ UNCHANGED <<env, configInstance, apiClients, accountCache, categoryCache,
                   payeeCache, now, calls, budgetOut, cfgOut>>

\* getTransactionById answers: the update is issued, or the handler returns
ApproveGot(response) ==
    /\ tool.name = "approve" /\ tool.pc = "get"
    /\ tool' =
         CASE response.kind = "reject" -> Finished(tool, ToolError("Upstream", ""))
           [] response.kind = "null" ->
                Finished(tool, ToolError("TransactionNotFound", ""))
           [] OTHER ->
                [tool EXCEPT !.pc = "update",
                             !.read = <<response.id>>,
                             !.log = Append(@, ApiCall("updateTransaction", tool.budgetId,
                                                       response.id,
                                                       ApproveBody(tool.input.approved)))]
    /\ UNCHANGED <<env, configInstance, apiClients, accountCache, categoryCache,
                   payeeCache, now, calls, budgetOut, cfgOut>>

\* updateTransaction answers
ApproveUpdated(response) ==
    /\ tool.name = "approve" /\ tool.pc = "update"
    /\ tool' =
         CASE response.kind = "reject" -> Finished(tool, ToolError("Upstream", ""))
           [] response.kind = "null" -> Finished(tool, ToolError("UpdateFailed", ""))
           [] OTHER -> Finished(tool, Ok([transactionId |-> response.id]))
    /\ UNCHANGED <<env, configInstance, apiClients, accountCache, categoryCache,
                   payeeCache, now, calls, budgetOut, cfgOut>>

ApproveInputs ==
    [budgetId : {Undefined, "", BudgetUsd}, transactionId : {"tx-1", "tx-2"},
     approved : {<<>>, <<TRUE>>, <<FALSE>>}]

ToolInit ==
    /\ env \in {EnvPersonal, EnvLegacyId}
    /\ configInstance = <<>>
    /\ apiClients = <<>>
    /\ accountCache = <<>>
    /\ categoryCache = <<>>
    /\ payeeCache = <<>>
    /\ now = 0
    /\ calls = [p \in Procs |-> IdleCall]
    /\ budgetOut = NoBudgetCall
    /\ cfgOut = NoCfgCall
    /\ tool = IdleTool

ApproveNext ==
    \/ \E input \in ApproveInputs : ApproveStart(input)
    \/ \E response \in Gives({"tx-1", "tx-2"}) : ApproveGot(response)
    \/ \E response \in Gives({"tx-1", "tx-2"}) : ApproveUpdated(response)

\* ynab_approve_transaction called again and again
ApproveSpec == ToolInit /\ [][ApproveNext]_vars

LogOps(log) == [i \in 1..Len(log) |-> log[i].op]

\* the API calls are a prefix of: the lookup of the requested transaction,
\* then the update, of the transaction the lookup returned, carrying the
\* approved flag and nothing else
C17_Order ==
    /\ LogOps(tool.log) \in {<<>>, <<"getTransactionById">>,
                              <<"getTransactionById", "updateTransaction">>}
    /\ Len(tool.log) >= 1 =>
          /\ tool.log[1].budgetId = tool.budgetId
          /\ tool.log[1].id = tool.input.transactionId
    /\ Len(tool.log) = 2 =>
          /\ tool.read # <<>>
          /\ tool.log[2].budgetId = tool.log[1].budgetId
          /\ tool.log[2].id = tool.read[1]
          /\ {tool.log[2].body[i].field : i \in 1..Len(tool.log[2].body)} = {"approved"}
          /\ Len(tool.log[2].body) = 1
          /\ tool.log[2].body[1].flag =
                (tool.input.approved = <<>> \/ tool.input.approved = <<TRUE>>)

NoBudgetAvailable ==
    /\ tool.input.budgetId \in {Undefined, ""}
    /\ EnvGet(env, "YNAB_BUDGET_ID") \in {Undefined, ""}

\* C17: updateTransaction is issued only after getTransactionById for the
\* same budget and transaction has returned a transaction; when the lookup
\* returns none or fails, or no budget id is available, it is never issued
\* (with no budget id neither call is made); the update body carries only
\* the approved flag.
C17_UpdateAfterLookup ==
    tool.name = "approve" =>
        /\ C17_Order
        /\ NoBudgetAvailable => (tool.log = <<>> /\ tool.pc = "done" /\ ~tool.out.ok)
        /\ (tool.pc = "done" /\ ~tool.out.ok
                /\ tool.out.err[1].type \in {"TransactionNotFound", "NoBudgetId"})
           => \A i \in 1..Len(tool.log) : tool.log[i].op # "updateTransaction"
        /\ (tool.pc = "done" /\ tool.read = <<>>)
           => \A i \in 1..Len(tool.log) : tool.log[i].op # "updateTransaction"

\* an approval that went through: the lookup, then the update with the
\* default flag, for an input without budget id or flag
C17_Witness ==
    /\ tool.name = "approve" /\ tool.pc = "done" /\ tool.out.ok
    /\ tool.input.budgetId = Undefined /\ tool.input.approved = <<>>
    /\ LogOps(tool.log) = <<"getTransactionById", "updateTransaction">>
    /\ tool.log[2].body = <<[field |-> "approved", flag |-> TRUE]>>

-----------------------------------------------------------------------------
(* ynab_categories_write (update, move)                                    *)

\* dollarsToMilliunits: Math.round(dollars * 1000); an amount in dollars is
\* carried as its number of ten-thousandths (50006 is $5.0006)
dollarsToMilliunits(dollars) == (dollars + 5) \div 10

\* faulty variant: the funds check also refuses a source that has exactly
\* the amount
InsufficientOrEqual(fromCurrent, milliunits) == fromCurrent <= milliunits

\* fromCurrent < milliunits
Insufficient(fromCurrent, milliunits) == fromCurrent < milliunits

\* getApiClient(profile) and resolveBudgetId(budget, profile), then the await
\* of getBudgetById; c is what getConfig() gives
WriteToolEnter(name, input, c, prof, budgetId) ==
    /\ configInstance' = ConfigAfter(configInstance, c)
    /\ apiClients' = IF prof.ok THEN ClientsAfter(apiClients, prof.val[1]) ELSE apiClients
    /\ tool' = IF ~prof.ok
               THEN Finished(Running(name, "start", input, "", <<>>, <<>>), prof)
               ELSE IF ~budgetId.ok
               THEN Finished(Running(name, "start", input, "", <<>>, <<>>), budgetId)
               ELSE Running(name, "budget", input, budgetId.val[1], <<>>,
                            <<ApiCall("getBudgetById", budgetId.val[1], "", <<>>)>>)

WriteToolStart(name, input, c) ==
    /\ ToolFree
    /\ WriteToolEnter(name, input, c, getProfile(c, input.profile),
                      resolveBudgetId(c, input.budget, input.profile))
    /\ UNCHANGED <<env, accountCache, categoryCache, payeeCache, now, calls,
                   budgetOut, cfgOut>>

\* execute of ynab_categories_write up to the await of getBudgetById
CategoriesWriteStart(input) ==
    WriteToolStart("categories_write", input, getConfig(configInstance, env))

\* the handler returns without calling a resolver
ToolReturns(out) ==
    /\ tool' = Finished(tool, out)
    /\ UNCHANGED <<env, configInstance, apiClients, accountCache, categoryCache,
                   payeeCache, now, calls, budgetOut, cfgOut>>

\* the handler moves on without calling a resolver
ToolMoves(t) ==
    /\ tool' = t
    /\ UNCHANGED <<env, configInstance, apiClients, accountCache, categoryCache,
                   payeeCache, now, calls, budgetOut, cfgOut>>

\* the handler awaits a resolver
ToolResolves(pc, kind, ref, read) ==
    /\ tool' = [tool EXCEPT !.pc = pc, !.read = read]
    /\ StartCall("tool", kind, ref, tool.input.budget, tool.input.profile)

\* the argument checks of the two actions: <<>> when they pass
CategoriesWriteCheck(input) ==
    CASE input.action = "update" /\ Falsy(input.category) ->
            <<ToolError("CategoryRequired", "")>>
      [] input.action = "update" /\ input.amount = <<>> ->
            <<ToolError("AmountRequired", "")>>
      [] input.action = "move" /\ Falsy(input.from_category) ->
            <<ToolError("FromCategoryRequired", "")>>
      [] input.action = "move" /\ Falsy(input.to_category) ->
            <<ToolError("ToCategoryRequired", "")>>
      [] input.action = "move" /\ (input.amount = <<>> \/ input.amount[1] <= 0) ->
            <<ToolError("AmountNotPositive", "")>>
      [] input.action \notin {"update", "move"} ->
            <<ToolError("UnknownAction", input.action)>>
      [] OTHER -> <<>>

\* getBudgetById answers: the checks, then the first resolveCategoryId
CategoriesWriteBudget(response) ==
    /\ tool.name = "categories_write" /\ tool.pc = "budget"
    /\ IF response = "reject" THEN ToolReturns(ToolError("Upstream", ""))
       ELSE IF CategoriesWriteCheck(tool.input) # <<>>
       THEN ToolReturns(CategoriesWriteCheck(tool.input)[1])
       ELSE IF tool.input.action = "update"
       THEN ToolResolves("category", "category", tool.input.category, <<>>)
       ELSE ToolResolves("from", "category", tool.input.from_category, <<>>)

\* update: resolveCategoryId has answered, updateMonthCategory is issued
CategoriesWriteCategory ==
    /\ tool.name = "categories_write" /\ tool.pc = "category"
    /\ calls["tool"].pc = "done"
    /\ IF ~calls["tool"].out.ok THEN ToolReturns(calls["tool"].out)
       ELSE ToolMoves([tool EXCEPT
                !.pc = "update",
                !.read = <<calls["tool"].out.val[1]>>,
                !.log = Append(@, ApiCall("updateMonthCategory", tool.budgetId,
                            calls["tool"].out.val[1],
                            <<[field |-> "budgeted",
                               amount |-> dollarsToMilliunits(tool.input.amount[1])]>>))])

\* move: the source is resolved, the target is next
CategoriesWriteFrom ==
    /\ tool.name = "categories_write" /\ tool.pc = "from"
    /\ calls["tool"].pc = "done"
    /\ IF ~calls["tool"].out.ok THEN ToolReturns(calls["tool"].out)
       ELSE ToolResolves("to", "category", tool.input.to_category,
                         <<calls["tool"].out.val[1]>>)

\* move: the target is resolved, both month categories are read (Promise.all)
CategoriesWriteTo ==
    /\ tool.name = "categories_write" /\ tool.pc = "to"
    /\ calls["tool"].pc = "done"
    /\ IF ~calls["tool"].out.ok THEN ToolReturns(calls["tool"].out)
       ELSE ToolMoves([tool EXCEPT
                !.pc = "reads",
                !.read = Append(@, calls["tool"].out.val[1]),
                !.log = @ \o <<ApiCall("getMonthCategoryById", tool.budgetId,
                                       tool.read[1], <<>>),
                               ApiCall("getMonthCategoryById", tool.budgetId,
                                       calls["tool"].out.val[1], <<>>)>>])

\* the two updates of a move
MoveUpdates(budgetId, read, fromCurrent, toCurrent, milliunits) ==
    <<ApiCall("updateMonthCategory", budgetId, read[1],
              <<[field |-> "budgeted", amount |-> fromCurrent - milliunits]>>),
      ApiCall("updateMonthCategory", budgetId, read[2],
              <<[field |-> "budgeted", amount |-> toCurrent + milliunits]>>)>>

\* what the two reads of a move may give
MonthValues == {[kind |-> "values", from |-> f, to |-> t] : f \in {4999, 5000, 5001},
                                                          t \in {0, 700, 5001}}
               \cup {[kind |-> "reject", from |-> 0, to |-> 0]}

\* move: both reads have answered: the funds check, then both updates
CategoriesWriteReads(response) ==
    /\ tool.name = "categories_write" /\ tool.pc = "reads"
    /\ tool.read[1] = tool.read[2] => response.from = response.to
    /\ IF response.kind = "reject" THEN ToolReturns(ToolError("Upstream", ""))
       ELSE IF Insufficient(response.from, dollarsToMilliunits(tool.input.amount[1]))
       THEN ToolMoves(Finished([tool EXCEPT !.vals = <<response.from, response.to>>],
                               ToolError("InsufficientFunds", tool.input.from_category)))
       ELSE ToolMoves([tool EXCEPT
                !.pc = "updates",
                !.vals = <<response.from, response.to>>,
                !.log = @ \o MoveUpdates(tool.budgetId, tool.read, response.from,
                                         response.to,
                                         dollarsToMilliunits(tool.input.amount[1]))])

\* the updateMonthCategory calls the handler has issued
UpdatesIssued == SelectSeq(tool.log, LAMBDA c : c.op = "updateMonthCategory")

\* what the awaited updates may give: the ones upstream carried out, in the
\* order it carried them out; the ones left out were rejected
UpdateOutcomes == {<<>>, <<1>>, <<2>>, <<1, 2>>, <<2, 1>>}

\* the update (or the Promise.all of the pair of updates) has answered:
\* success when every update was carried out, the caught error otherwise
CategoriesWriteUpdated(response) ==
    /\ tool.name = "categories_write" /\ tool.pc \in {"update", "updates"}
    /\ \A i \in 1..Len(response) : response[i] <= Len(UpdatesIssued)
    /\ ToolMoves(Finished(
            [tool EXCEPT !.applied = [i \in 1..Len(response) |->
                                         UpdatesIssued[response[i]]]],
            IF Len(response) < Len(UpdatesIssued) THEN ToolError("Upstream", "")
            ELSE Ok([success |-> TRUE])))

CategoriesWriteInput(action, profile, budget, category, from, to, amount) ==
    [action |-> action, profile |-> profile, budget |-> budget, category |-> category,
     from_category |-> from, to_category |-> to, amount |-> amount]

CategoriesWriteInputs ==
    {CategoriesWriteInput("move", Undefined, Undefined, Undefined, from, to, amount) :
        from \in {Undefined, "Home: Rent"}, to \in {Undefined, "Fun: Rent", "zzz"},
        amount \in {<<>>, <<0>>, <<50000>>, <<50006>>}}
    \cup {CategoriesWriteInput("update", Undefined, Undefined, category, Undefined,
                               Undefined, amount) :
            category \in {Undefined, "Rent"}, amount \in {<<>>, <<50000>>}}
    \cup {CategoriesWriteInput("move", "nobody", Undefined, Undefined, "Home: Rent",
                               "Fun: Rent", <<50000>>),
          CategoriesWriteInput("move", Undefined, "nope", Undefined, "Home: Rent",
                               "Fun: Rent", <<50000>>),
          CategoriesWriteInput("swap", Undefined, Undefined, Undefined, "Home: Rent",
                               "Fun: Rent", <<50000>>),
          CategoriesWriteInput("move", Undefined, Undefined, Undefined, "Home: Rent",
                               "Home: Rent", <<50000>>)}

CategoriesWriteNext ==
    \/ \E input \in CategoriesWriteInputs : CategoriesWriteStart(input)
    \/ \E response \in {"ok", "reject"} : CategoriesWriteBudget(response)
    \/ CategoriesWriteCategory
    \/ CategoriesWriteFrom
    \/ CategoriesWriteTo
    \/ \E response \in MonthValues : CategoriesWriteReads(response)
    \/ \E response \in UpdateOutcomes : CategoriesWriteUpdated(response)
    \/ \E response \in Upstream("category") : Respond("tool", response)
    \/ RespondError("tool")

\* ynab_categories_write called again and again
CategoriesWriteSpec == ToolInit /\ [][CategoriesWriteNext]_vars

\* a move whose two reads have answered
MoveRead ==
    /\ tool.name = "categories_write"
    /\ tool.input.action = "move"
    /\ tool.vals # <<>>

\* the requested amount in milliunits
Requested == dollarsToMilliunits(tool.input.amount[1])

\* the handler has returned the insufficient-funds error
RefusedForFunds ==
    /\ tool.pc = "done"
    /\ ~tool.out.ok
    /\ tool.out.err # <<>>
    /\ tool.out.err[1].type = "InsufficientFunds"

\* C16: a move of ynab_categories_write whose source has less budgeted than
\* the requested milliunits returns an error and issues no
\* updateMonthCategory; otherwise it issues exactly two, the source set to
\* its read value minus the amount and the target to its read value plus the
\* amount; a move issues no update before both values are read, and reports
\* success only after both updates
C16_MoveValidatesFunds ==
    /\ MoveRead /\ tool.vals[1] < Requested =>
            RefusedForFunds /\ UpdatesIssued = <<>>
    /\ MoveRead /\ tool.vals[1] >= Requested =>
            /\ ~RefusedForFunds
            /\ Len(UpdatesIssued) = 2
            /\ UpdatesIssued[1].id = tool.read[1]
            /\ UpdatesIssued[1].body = <<[field |-> "budgeted",
                                          amount |-> tool.vals[1] - Requested]>>
            /\ UpdatesIssued[2].id = tool.read[2]
            /\ UpdatesIssued[2].body = <<[field |-> "budgeted",
                                          amount |-> tool.vals[2] + Requested]>>
    /\ tool.name = "categories_write" /\ tool.input.action = "move"
       /\ tool.vals = <<>> => UpdatesIssued = <<>>
    /\ tool.name = "categories_write" /\ tool.input.action = "move"
       /\ tool.pc = "done" /\ tool.out.ok => Len(UpdatesIssued) = 2

\* a move of $5.0006 (5001 milliunits) out of a source holding 5000 is
\* refused without an update
C16_Witness ==
    /\ MoveRead
    /\ tool.input.amount = <<50006>>
    /\ tool.vals[1] = 5000
    /\ RefusedForFunds
    /\ UpdatesIssued = <<>>
    /\ Len(tool.log) = 3

\* a move of $5.0006 out of a source holding exactly 5001 goes through
C16_MovedAll ==
    /\ MoveRead
    /\ tool.input.amount = <<50006>>
    /\ tool.vals = <<5001, 700>>
    /\ tool.pc = "done" /\ tool.out.ok
    /\ UpdatesIssued[1].body[1].amount = 0
    /\ UpdatesIssued[2].body[1].amount = 5701

-----------------------------------------------------------------------------
(* ynab_transactions_write (create)                                        *)

\* getDefaultAccount(budgetAlias, profileName), c being what its getConfig()
\* call gives: profile.defaultAccounts[budgetAlias?.toLowerCase() || '']
getDefaultAccount(c, budgetAlias, profileName) ==
    LET profile == getProfile(c, profileName) IN
    IF ~profile.ok THEN profile
    ELSE LET normalizedAlias == OrElse(LowerIfDefined(budgetAlias), "")
         IN  Ok(IF MapHas(profile.val[1].defaultAccounts, normalizedAlias)
                THEN MapGet(profile.val[1].defaultAccounts, normalizedAlias).value
                ELSE Undefined)

\* execute of ynab_transactions_write up to the await of getBudgetById
TransactionsWriteStart(input) ==
    WriteToolStart("transactions_write", input, getConfig(configInstance, env))

\* the account of a create: the one given, or the default account
CreateAccount(input, defaultAccount) ==
    IF ~Falsy(input.account)
    THEN ToolResolves("account", "account", input.account, <<>>)
    ELSE IF ~defaultAccount.ok THEN ToolReturns(defaultAccount)
    ELSE IF Falsy(defaultAccount.val[1])
    THEN ToolReturns(ToolError("NoDefaultAccount", ""))
    ELSE ToolResolves("account", "account", defaultAccount.val[1], <<>>)

\* getBudgetById answers: create resolves its account
TransactionsWriteBudget(response) ==
    /\ tool.name = "transactions_write" /\ tool.pc = "budget"
    /\ tool.input.action = "create"
    /\ IF response = "reject" THEN ToolReturns(ToolError("Upstream", ""))
       ELSE CreateAccount(tool.input,
                getDefaultAccount(getConfig(configInstance, env),
                                  OrElse(LowerIfDefined(tool.input.budget), ""),
                                  tool.input.profile))

\* the payee of the new transaction: payee_id when the resolved id has a
\* hyphen, payee_name otherwise
CreatePayee(payee, payeeId) ==
    IF Falsy(payee) THEN <<>>
    ELSE IF Includes(payeeId, "-") THEN <<[field |-> "payee_id", text |-> payeeId]>>
    ELSE <<[field |-> "payee_name", text |-> payee]>>

\* the transaction of a create; read holds the account id, the payee id and
\* the category id ("" where the input names none)
NewTransaction(input, read) ==
    <<[field |-> "account_id", text |-> read[1]],
      [field |-> "amount", amount |-> dollarsToMilliunits(input.amount[1])],
      [field |-> "cleared", text |-> OrElse(input.cleared, "uncleared")],
      [field |-> "approved", flag |-> TRUE]>>
    \o CreatePayee(input.payee, read[2])
    \o (IF Falsy(input.category) THEN <<>>
        ELSE <<[field |-> "category_id", text |-> read[3]]>>)
    \o (IF Falsy(input.memo) THEN <<>> ELSE <<[field |-> "memo", text |-> input.memo]>>)

\* createTransaction is issued
CreateIssue(read) ==
    ToolMoves([tool EXCEPT
        !.pc = "create",
        !.read = read,
        !.log = Append(@, ApiCall("createTransaction", tool.budgetId, "",
                                  NewTransaction(tool.input, read)))])

\* after the payee: the category, if one is named (the inputs carry no splits)
CreateCategory(read) ==
    IF ~Falsy(tool.input.category)
    THEN ToolResolves("category", "category", tool.input.category, read)
    ELSE CreateIssue(Append(read, ""))

\* resolveAccountId has answered: the amount check, then the payee
TransactionsWriteAccount ==
    /\ tool.name = "transactions_write" /\ tool.pc = "account"
    /\ calls["tool"].pc = "done"
    /\ IF ~calls["tool"].out.ok THEN ToolReturns(calls["tool"].out)
       ELSE IF tool.input.amount = <<>> THEN ToolReturns(ToolError("AmountRequired", ""))
       ELSE IF ~Falsy(tool.input.payee)
       THEN ToolResolves("payee", "payee", tool.input.payee, <<calls["tool"].out.val[1]>>)
       ELSE CreateCategory(<<calls["tool"].out.val[1], "">>)

\* resolvePayeeId has answered
TransactionsWritePayee ==
    /\ tool.name = "transactions_write" /\ tool.pc = "payee"
    /\ calls["tool"].pc = "done"
    /\ IF ~calls["tool"].out.ok THEN ToolReturns(calls["tool"].out)
       ELSE CreateCategory(Append(tool.read, calls["tool"].out.val[1]))

\* resolveCategoryId has answered
TransactionsWriteCategory ==
    /\ tool.name = "transactions_write" /\ tool.pc = "category"
    /\ calls["tool"].pc = "done"
    /\ IF ~calls["tool"].out.ok THEN ToolReturns(calls["tool"].out)
       ELSE CreateIssue(Append(tool.read, calls["tool"].out.val[1]))

\* createTransaction has answered
TransactionsWriteCreated(response) ==
    /\ tool.name = "transactions_write" /\ tool.pc = "create"
    /\ CASE response = "reject" -> ToolReturns(ToolError("Upstream", ""))
         [] response = "none"   -> ToolReturns(ToolError("NoDataReturned", ""))
         [] OTHER               -> ToolReturns(Ok([success |-> TRUE]))

CreateInput(profile, budget, account, amount, payee, category, memo) ==
    [action |-> "create", profile |-> profile, budget |-> budget, account |-> account,
     amount |-> amount, payee |-> payee, category |-> category, memo |-> memo,
     cleared |-> Undefined]

CreateInputs ==
    {CreateInput(Undefined, Undefined, Undefined, <<-125000>>, Undefined, Undefined,
                 Undefined),
     CreateInput(Undefined, "cad", Undefined, <<-125000>>, "Acme", "Home: Rent",
                 Undefined),
     CreateInput(Undefined, "Cad", Undefined, <<-125000>>, "Zed", Undefined, Undefined),
     CreateInput(Undefined, "usd", Undefined, <<-125000>>, Undefined, Undefined,
                 Undefined),
     CreateInput(Undefined, BudgetCad, Undefined, <<-125000>>, Undefined, Undefined,
                 Undefined),
     CreateInput(Undefined, Undefined, "Joint", <<>>, Undefined, Undefined, Undefined),
     CreateInput(Undefined, "cad", "Joint", <<-125004>>, Undefined, Undefined, "lunch"),
     CreateInput(Undefined, "cad", "Joint", <<-125000>>, "Wal-Mart", Undefined,
                 Undefined),
     CreateInput(Undefined, "cad", "Joint", <<-125000>>, RefId, Undefined, Undefined),
     CreateInput("nobody", Undefined, Undefined, <<-125000>>, Undefined, Undefined,
                 Undefined),
     CreateInput(Undefined, "nope", Undefined, <<-125000>>, Undefined, Undefined,
                 Undefined)}

TransactionsWriteNext ==
    \/ \E input \in CreateInputs : TransactionsWriteStart(input)
    \/ \E response \in {"ok", "reject"} : TransactionsWriteBudget(response)
    \/ TransactionsWriteAccount
    \/ TransactionsWritePayee
    \/ TransactionsWriteCategory
    \/ \E response \in {"ok", "none", "reject"} : TransactionsWriteCreated(response)
    \/ \E kind \in Kinds : \E response \in Upstream(kind) : Respond("tool", response)
    \/ RespondError("tool")

\* ynab_transactions_write create called again and again
TransactionsWriteSpec == ToolInit /\ [][TransactionsWriteNext]_vars

\* the profile the create in progress runs under
ToolProfile == getProfile(Ok(TheConfig), tool.input.profile).val[1]

\* the aliases of the budget in effect: those the profile gives to the budget
\* id the handler resolved
AliasesInEffect ==
    {ToolProfile.budgets[i].alias : i \in
        {k \in 1..Len(ToolProfile.budgets) : ToolProfile.budgets[k].id = tool.budgetId}}

\* the default accounts configured for the budget in effect
ConfiguredDefaults ==
    {MapGet(ToolProfile.defaultAccounts, a).value : a \in
        {b \in AliasesInEffect : MapHas(ToolProfile.defaultAccounts, b)}}

\* a create without account that has passed getBudgetById
CreateWithoutAccount ==
    /\ tool.name = "transactions_write"
    /\ tool.input.action = "create"
    /\ Falsy(tool.input.account)
    /\ tool.budgetId # ""
    /\ tool.pc # "budget"

ReportsNoDefaultAccount ==
    /\ tool.pc = "done"
    /\ ~tool.out.ok
    /\ tool.out.err # <<>>
    /\ tool.out.err[1].type = "NoDefaultAccount"

\* C15: a create without account resolves the default account configured
\* for the budget in effect, whether the budget was named or the default
\* budget is used, and answers "no default account configured" only when
\* that budget has none
C15_DefaultAccountOfBudgetInEffect ==
    CreateWithoutAccount =>
        /\ ReportsNoDefaultAccount => ConfiguredDefaults = {}
        /\ tool.pc = "account" => calls["tool"].ref \in ConfiguredDefaults

\* what the handler does: the default account is looked up under the budget
\* argument in lower case, and under "" when it is omitted
C15_LooksUpArgument ==
    CreateWithoutAccount =>
        LET key == OrElse(LowerIfDefined(tool.input.budget), "") IN
        /\ ReportsNoDefaultAccount => ~MapHas(ToolProfile.defaultAccounts, key)
        /\ ~MapHas(ToolProfile.defaultAccounts, key) => tool.pc = "done" /\ ~tool.out.ok
        /\ tool.pc = "account" =>
                /\ MapHas(ToolProfile.defaultAccounts, key)
                /\ calls["tool"].ref = MapGet(ToolProfile.defaultAccounts, key).value

\* a create without account and without budget under a profile whose default
\* budget has a default account
C15_OmittedBudget ==
    /\ CreateWithoutAccount
    /\ tool.input.budget = Undefined
    /\ ConfiguredDefaults = {"Chk"}
    /\ ReportsNoDefaultAccount

-----------------------------------------------------------------------------
(* Two callers: resolutions that interleave at the await                   *)

MaxRaceTicks == 2

\* the clock moves on by a millisecond, a few times
RaceTick ==
    /\ now < MaxRaceTicks
    /\ now' = now + 1
    /\ UNCHANGED <<env, configInstance, apiClients, accountCache, categoryCache,
                   payeeCache, calls, budgetOut, cfgOut, tool>>

Racers == {"p1", "p2"}

\* the calls of the two callers: <<kind, ref, budgetRef, profileName>>
RaceWorkload ==
    {<<"account", " CHK ", Undefined, Undefined>>,
     <<"account", "Joint Chk", Undefined, Undefined>>,
     <<"category", "Rent", Undefined, Undefined>>}

RaceNext ==
    \/ \E p \in Racers : \E w \in RaceWorkload : Start(p, w[1], w[2], w[3], w[4])
    \/ \E p \in Racers : \E kind \in Kinds : \E r \in Upstream(kind) : Respond(p, r)
    \/ \E p \in Racers : RespondError(p)
    \/ RaceTick

\* two callers resolving while the clock runs; no bucket expires or is
\* cleared, so two calls that both refreshed one bucket overlapped in time
RaceSpec == Init /\ [][RaceNext]_vars

\* a call that went through a refresh and searched its listing
Refreshed(p) ==
    /\ calls[p].pc = "done"
    /\ calls[p].nUp = 1
    /\ calls[p].out.ok \/ calls[p].out.err[1].type # "Upstream"

\* both callers refreshed the same bucket for the same reference
BothRefreshed ==
    /\ Refreshed("p1") /\ Refreshed("p2")
    /\ calls["p1"].kind = calls["p2"].kind
    /\ calls["p1"].cacheKey = calls["p2"].cacheKey
    /\ calls["p1"].ref = calls["p2"].ref

\* C21 as stated: two requests that both refreshed one bucket return what a
\* run of one after the other returns, that is the same answer for the same
\* reference, the one a search of the final bucket gives
C21_AsOneAfterTheOther ==
    BothRefreshed =>
        /\ calls["p1"].out = calls["p2"].out
        /\ calls["p1"].out = Search(calls["p1"].kind,
                                    CacheOf(calls["p1"].kind)[calls["p1"].cacheKey],
                                    calls["p1"].ref)

\* caller p's listing call answers in this step
AnswersTo(p) == calls[p].pc = "await" /\ Refreshed(p)'

C21_Step ==
    \A p \in Racers : AnswersTo(p) =>
        /\ \E r \in Upstream(calls[p].kind) :
              /\ CacheOfNext(calls[p].kind)[calls[p].cacheKey]
                    = BuildBucket(calls[p].kind, r, calls[p].t)
              /\ calls'[p].out = Search(calls[p].kind,
                                        BuildBucket(calls[p].kind, r, calls[p].t),
                                        calls[p].ref)
        /\ \A q \in Racers \ {p} : calls'[q] = calls[q]

\* C21 (amended): when two requests for one bucket interleave at the
\* upstream call, each returns what a search of its own listing gives, the
\* bucket is replaced by the snapshot of the request that answers, so the
\* final bucket is the snapshot of the one that answered last, and the
\* answer of the other request is not touched; the two answers agree only
\* when the two listings do
C21_OwnSnapshot == [][C21_Step]_vars

\* both requests refreshed the bucket and returned different ids for " CHK "
C21_Witness ==
    /\ BothRefreshed
    /\ calls["p1"].ref = " CHK "
    /\ calls["p1"].out = Ok(IdChk)
    /\ calls["p2"].out = Ok(IdChkNew)
    /\ calls["p1"].t < calls["p2"].t

-----------------------------------------------------------------------------
(* getAccountName                                                          *)

\* getAccountName up to the await of getAccountById; c is what getConfig()
\* gives, prof what getProfile gives, budgetId what resolveBudgetId gives
NameLookup(p, accountId, budgetRef, profileName, c, prof, budgetId) ==
    /\ configInstance' = ConfigAfter(configInstance, c)
    /\ apiClients' = IF prof.ok THEN ClientsAfter(apiClients, prof.val[1]) ELSE apiClients
    /\ calls' = [calls EXCEPT ![p] =
            IF ~prof.ok
            THEN Done("accountName", accountId, budgetRef, profileName, "", 0, 0, prof)
            ELSE IF ~budgetId.ok
            THEN Done("accountName", accountId, budgetRef, profileName, "", 0, 0, budgetId)
            ELSE Await("accountName", accountId, budgetRef, profileName, "", 0)]

NameWith(p, accountId, budgetRef, profileName, c) ==
    NameLookup(p, accountId, budgetRef, profileName, c,
               getProfile(c, profileName), resolveBudgetId(c, budgetRef, profileName))

getAccountName(p, accountId, budgetRef, profileName) ==
    /\ calls[p].pc # "await"
    /\ NameWith(p, accountId, budgetRef, profileName, getConfig(configInstance, env))
    /\ UNCHANGED <<env, now, budgetOut, cfgOut, accountCache, categoryCache, payeeCache,
                   tool>>

\* getAccountById answers: response.data.account.name
NameAnswers(p, name) ==
    LET c == calls[p] IN
    /\ c.pc = "await" /\ c.kind = "accountName"
    /\ calls' = [calls EXCEPT ![p] =
                    Done(c.kind, c.ref, c.budgetRef, c.profileName, "", 0, 1, Ok(name))]
    /\ UNCHANGED <<env, configInstance, apiClients, accountCache, categoryCache,
                   payeeCache, now, budgetOut, cfgOut, tool>>

\* getAccountById fails: catch { return accountId }
NameFails(p) ==
    LET c == calls[p] IN
    /\ c.pc = "await" /\ c.kind = "accountName"
    /\ calls' = [calls EXCEPT ![p] =
                    Done(c.kind, c.ref, c.budgetRef, c.profileName, "", 0, 1, Ok(c.ref))]
    /\ UNCHANGED <<env, configInstance, apiClients, accountCache, categoryCache,
                   payeeCache, now, budgetOut, cfgOut, tool>>

\* the names getAccountById may answer with
AccountNames == {"Chk"}

\* the calls of getAccountName: <<accountId, budgetRef, profileName>>
NameWorkload ==
    {<<IdChk, Undefined, Undefined>>, <<IdChk, "nope", Undefined>>,
     <<IdChk, Undefined, "nobody">>}

\* the resolver calls made beside it
ErrorWorkload ==
    Workload \cup {<<"account", "zzz", "nope", Undefined>>,
                   <<"payee", "acm", Undefined, "nobody">>}

ErrorNext ==
    \/ \E w \in ErrorWorkload : Start("p1", w[1], w[2], w[3], w[4])
    \/ \E kind \in Kinds : \E r \in Upstream(kind) : Respond("p1", r)
    \/ RespondError("p1")
    \/ clearCaches
    \/ \E w \in NameWorkload : getAccountName("p2", w[1], w[2], w[3])
    \/ \E name \in AccountNames : NameAnswers("p2", name)
    \/ NameFails("p2")

\* the four operations of the resolver module, upstream calls failing at will
ErrorSpec == Init /\ [][ErrorNext]_vars

\* a step in which an awaited upstream call of caller p comes back
ComesBack(p) == calls[p].pc = "await" /\ calls'[p].pc = "done"

\* a resolver that answers without a listing having been stored fails
ResolverRaises ==
    (ComesBack("p1") /\ UNCHANGED <<accountCache, categoryCache, payeeCache>>)
        => ~calls'["p1"].out.ok

C22_AsStatedStep ==
    /\ ResolverRaises
    /\ ComesBack("p2") =>
         \/ ~calls'["p2"].out.ok
         \/ calls'["p2"].out.val[1] \in AccountNames

\* C22 as stated: no operation swallows an error; what a call returns after
\* its upstream call is a value upstream gave, and otherwise it raises
C22_NothingSwallowed == [][C22_AsStatedStep]_vars

\* caller p enters an operation whose profile or budget cannot be resolved
EntersUnresolved(p) ==
    /\ calls[p].pc # "await"
    /\ calls'[p] # calls[p]
    /\ calls'[p].pc = "done"
    /\ calls'[p].kind = "accountName" \/ ~LooksLikeId(calls'[p].ref)
    /\ \/ ~getProfile(getConfig(configInstance, env), calls'[p].profileName).ok
       \/ ~resolveBudgetId(getConfig(configInstance, env), calls'[p].budgetRef,
                           calls'[p].profileName).ok

C22_Step ==
    /\ ResolverRaises
    /\ ComesBack("p2") =>
         /\ calls'["p2"].out.ok
         /\ calls'["p2"].out.val[1] \in AccountNames \cup {calls["p2"].ref}
    /\ \A p \in {"p1", "p2"} : EntersUnresolved(p) => ~calls'[p].out.ok

\* C22 (amended): the three resolvers never swallow an error: a failed
\* listing call, an unknown profile and an unresolved budget reach the caller
\* as failures. getAccountName raises for an unknown profile or budget, but
\* it swallows a failure of its upstream call and returns the account id it
\* was given in place of a name.
C22_OnlyNameSwallows == [][C22_Step]_vars

\* getAccountName has come back from a failed upstream call with the id
C22_Witness ==
    /\ calls["p2"].pc = "done" /\ calls["p2"].kind = "accountName"
    /\ calls["p2"].nUp = 1
    /\ calls["p2"].out = Ok(IdChk)
    /\ calls["p1"].pc = "done" /\ ~calls["p1"].out.ok
    /\ calls["p1"].out.err[1].type = "Upstream"

\* the ids of the payees the upstream listings hold
PayeeIds ==
    UNION {{r[i].id : i \in 1..Len(r)} : r \in Upstream("payee")}

\* the createTransaction calls the handler has issued
CreatesIssued == SelectSeq(tool.log, LAMBDA c : c.op = "createTransaction")

\* the payee_id fields of a transaction body
PayeeIdsOf(body) ==
    {body[i].text : i \in {k \in 1..Len(body) : body[k].field = "payee_id"}}

\* C23: in a create of ynab_transactions_write the value resolvePayeeId
\* returned is sent as payee_id only when it is the id of a listed payee or
\* the identifier-shaped input itself; a name that missed the cache is sent
\* as payee_name, also when it contains a hyphen
C23_PayeeIdIsAnId ==
    (tool.name = "transactions_write" /\ CreatesIssued # <<>>) =>
        \A id \in PayeeIdsOf(CreatesIssued[1].body) :
            \/ id \in PayeeIds
            \/ id = tool.input.payee /\ LooksLikeId(tool.input.payee)

\* a create naming the unknown payee "Wal-Mart" has sent the name as payee_id
C23_HyphenName ==
    /\ tool.name = "transactions_write" /\ CreatesIssued # <<>>
    /\ tool.input.payee = "Wal-Mart"
    /\ PayeeIdsOf(CreatesIssued[1].body) = {"Wal-Mart"}

\* the positions <<group, category>> of the categories of a response that a
\* refresh caches
CachedAt(response) ==
    {<<g, c>> \in (1..Len(response)) \X (1..3) :
        /\ c <= Len(response[g].categories)
        /\ Listed(response[g].categories[c])}

CategoryAt(response, at) == response[at[1]].categories[at[2]]

\* position a comes before position b in upstream order
Before(a, b) == a[1] < b[1] \/ (a[1] = b[1] /\ a[2] < b[2])

\* the cached category processed last among those with the bare name of at
LastNamed(response, at) ==
    CHOOSE b \in CachedAt(response) :
        /\ Norm(CategoryAt(response, b).name) = Norm(CategoryAt(response, at).name)
        /\ \A a \in CachedAt(response) :
              Norm(CategoryAt(response, a).name) = Norm(CategoryAt(response, at).name)
              => (a = b \/ Before(a, b))

\* the bucket maps key k to id
MapsTo(bucket, k, id) == \E i \in 1..Len(bucket) : bucket[i].key = k /\ bucket[i].id = id

\* C24: a category bucket is built from one listing: it holds every cached
\* category of that listing under its normalized "group: name" key, mapped to that category, and under its
\* normalized bare name, mapped to the category with that bare name that
\* comes last in upstream order
C24_BareNameLastWins ==
    \A key \in DOMAIN categoryCache :
        \E response \in Upstream("category") :
            /\ KeySet(categoryCache[key]) = KeysOf("category", response, Listed)
            /\ \A at \in CachedAt(response) :
                /\ MapsTo(categoryCache[key],
                          Norm(response[at[1]].name \o ": " \o CategoryAt(response, at).name),
                          CategoryAt(response, at).id)
                /\ MapsTo(categoryCache[key], Norm(CategoryAt(response, at).name),
                          CategoryAt(response, LastNamed(response, at)).id)

\* a bucket built from a listing with "Rent" in two groups: the bare key
\* holds the second one, each qualified key its own
C24_Witness ==
    \E key \in DOMAIN categoryCache :
        /\ MapsTo(categoryCache[key], "rent", IdFunRent)
        /\ MapsTo(categoryCache[key], "home: rent", IdRent)
        /\ MapsTo(categoryCache[key], "fun: rent", IdFunRent)
        /\ Len(categoryCache[key]) = 3

-----------------------------------------------------------------------------
(* clearCaches while a refresh is in flight                                *)

\* clearCaches called by caller p, whose record keeps the time of the call
ClearCachesBy(p) ==
    /\ calls[p].pc # "await"
    /\ accountCache' = <<>>
    /\ categoryCache' = <<>>
    /\ payeeCache' = <<>>
    /\ calls' = [calls EXCEPT ![p] = Done("clear", "", "", "", "", now, 0, Ok(""))]
    /\ UNCHANGED <<env, configInstance, apiClients, now, budgetOut, cfgOut, tool>>

ClearNext ==
    \/ \E w \in RaceWorkload : Start("p1", w[1], w[2], w[3], w[4])
    \/ \E kind \in Kinds : \E r \in Upstream(kind) : Respond("p1", r)
    \/ RespondError("p1")
    \/ ClearCachesBy("p2")
    \/ RaceTick

\* one caller resolves, another clears the caches, the clock runs
ClearSpec == Init /\ [][ClearNext]_vars

\* the last thing caller p2 did was a clearCaches
Cleared == calls["p2"].pc = "done" /\ calls["p2"].kind = "clear"

\* the caller's latest resolution began after that clear and was answered
\* from the cache
HitAfterClear ==
    /\ Cleared
    /\ Caller.pc = "done" /\ Caller.out.ok
    /\ Caller.cacheKey # ""
    /\ Caller.nUp = 0
    /\ Caller.t > calls["p2"].t
    /\ CacheHas(CacheOf(Caller.kind), Caller.cacheKey)

\* C25: once clearCaches has returned, a resolution is answered from an
\* upstream call issued after the clear: a bucket that answers a later
\* resolution carries no timestamp from before the clear (a bucket's
\* timestamp is the time at which its listing call was issued)
C25_NothingFromBeforeClear ==
    HitAfterClear =>
        \A i \in 1..Len(CacheOf(Caller.kind)[Caller.cacheKey]) :
            CacheOf(Caller.kind)[Caller.cacheKey][i].timestamp >= calls["p2"].t

\* a refresh in flight across the clear has put its listing back: a
\* resolution made after the clear is answered from it
C25_InFlightRefill ==
    /\ HitAfterClear
    /\ Caller.kind = "account" /\ Caller.t = 2 /\ calls["p2"].t = 1
    /\ accountCache[Caller.cacheKey][1].timestamp = 0

C25_ClearStep ==
    (calls'["p2"] # calls["p2"] /\ Cleared') =>
        accountCache' = <<>> /\ categoryCache' = <<>> /\ payeeCache' = <<>>

\* what clearCaches does: the three caches are empty when it returns
C25_ClearEmpties == [][C25_ClearStep]_vars

-----------------------------------------------------------------------------
(* Two profiles, one of them named "default"                               *)

\* the default profile is "personal"; a second profile is named "default"
EnvDefaultNamed ==
    << <<"YNAB_PROFILES", "personal,default">>,
       <<"YNAB_TOKEN_PERSONAL", "token-personal">>,
       <<"YNAB_TOKEN_DEFAULT", "token-other">>,
       <<"YNAB_BUDGETS_PERSONAL", "cad:" \o BudgetCad>> >>

IsolationInit ==
    /\ env \in {EnvDefaultNamed, EnvTwoProfiles}
    /\ configInstance = <<>>
    /\ apiClients = <<>>
    /\ accountCache = <<>>
    /\ categoryCache = <<>>
    /\ payeeCache = <<>>
    /\ now = 0
    /\ calls = [p \in Procs |-> IdleCall]
    /\ budgetOut = NoBudgetCall
    /\ cfgOut = NoCfgCall
    /\ tool = IdleTool

\* the calls of the two callers: <<kind, ref, budgetRef, profileName>>
IsolationWorkload ==
    {<<"account", " CHK ", "last-used", Undefined>>,
     <<"account", " CHK ", "last-used", "default">>,
     <<"account", " CHK ", "last-used", "personal">>}

IsolationNext ==
    \/ \E p \in Racers : \E w \in IsolationWorkload : Start(p, w[1], w[2], w[3], w[4])
    \/ \E p \in Racers : \E kind \in Kinds : \E r \in Upstream(kind) : Respond(p, r)
    \/ \E p \in Racers : RespondError(p)

\* two callers resolving under different profiles
IsolationSpec == IsolationInit /\ [][IsolationNext]_vars

\* the call of caller p got as far as a bucket
UsesBucket(p) == calls[p].pc \in {"await", "done"} /\ calls[p].cacheKey # ""

\* the profile, and with it the client, the call of caller p ran under
ProfileOfCall(p) == getProfile(Ok(TheConfig), calls[p].profileName).val[1]

\* C26: no two distinct profiles share a cache bucket: two calls that use the
\* same bucket of the same cache ran under the same profile and so fetched
\* with the same client
C26_ProfilesShareNoBucket ==
    \A p, q \in Racers :
        (/\ UsesBucket(p) /\ UsesBucket(q)
         /\ calls[p].kind = calls[q].kind
         /\ calls[p].cacheKey = calls[q].cacheKey)
        => /\ ProfileOfCall(p).name = ProfileOfCall(q).name
           /\ ProfileOfCall(p).token = ProfileOfCall(q).token

\* a resolution for the profile named "default" is answered, without an
\* upstream call, from the bucket the default profile "personal" fetched
C26_Leak ==
    /\ calls["p1"].pc = "done" /\ calls["p1"].nUp = 1 /\ calls["p1"].out.ok
    /\ ProfileOfCall("p1").token = "token-personal"
    /\ calls["p2"].pc = "done" /\ calls["p2"].nUp = 0 /\ calls["p2"].out.ok
    /\ calls["p2"].cacheKey = calls["p1"].cacheKey
    /\ calls["p2"].kind = calls["p1"].kind
    /\ calls["p2"].cacheKey # ""
    /\ ProfileOfCall("p2").token = "token-other"
    /\ Len(apiClients) = 2

\* the timestamp of a non-empty bucket
StampOf(bucket) == bucket[1].timestamp

C27_Step ==
    \A kind \in Kinds :
        /\ \A key \in (DOMAIN CacheOf(kind)) \cap (DOMAIN CacheOfNext(kind)) :
              (CacheOf(kind)[key] # <<>> /\ CacheOfNext(kind)[key] # <<>>)
              => StampOf(CacheOfNext(kind)[key]) >= StampOf(CacheOf(kind)[key])
        /\ \A key \in DOMAIN CacheOfNext(kind) :
              CacheOfNext(kind)[key] # <<>> => StampOf(CacheOfNext(kind)[key]) <= now'

\* C27: under interleaved refreshes the timestamp of a bucket never
\* decreases, so a bucket is never overwritten by the response of a call
\* issued earlier than the one whose response it holds, and no bucket
\* carries a timestamp later than the present
C27_StampNeverDecreases == [][C27_Step]_vars

\* a bucket holding the listing of the call issued at time 0 after the call
\* issued at time 1 has answered
C27_OlderOverNewer ==
    /\ BothRefreshed
    /\ calls["p1"].t = 0 /\ calls["p2"].t = 1
    /\ calls["p1"].out = Ok(IdChk) /\ calls["p2"].out = Ok(IdChkNew)
    /\ StampOf(accountCache[calls["p1"].cacheKey]) = 0
    /\ MapsTo(accountCache[calls["p1"].cacheKey], "chk", IdChk)

C27_StampStep ==
    \A kind \in Kinds : \A key \in DOMAIN CacheOfNext(kind) :
        CacheOfNext(kind)[key] # <<>> => StampOf(CacheOfNext(kind)[key]) <= now'

\* the part that holds: a bucket's timestamp is read before the listing is
\* requested and is never later than the present
C27_StampNotLater == [][C27_StampStep]_vars

\* resolver calls that fail early and calls that refresh
FailureWorkload ==
    {<<"account", " CHK ", Undefined, Undefined>>,
     <<"category", "Rent", Undefined, Undefined>>,
     <<"payee", "acm", Undefined, Undefined>>,
     <<"account", " CHK ", "nope", Undefined>>,
     <<"payee", "acm", Undefined, "nobody">>}

FailureNext ==
    \/ \E w \in FailureWorkload : Start("p1", w[1], w[2], w[3], w[4])
    \/ \E kind \in Kinds : \E r \in Upstream(kind) : Respond("p1", r)
    \/ RespondError("p1")
    \/ clearCaches
    \/ TickSmall
    \/ TickBig

\* sequential resolutions, some of which fail, while the clock runs
FailureSpec == Init /\ [][FailureNext]_vars

\* the failures of a resolver that come before its search
EarlyFailures == {"ProfileNotFound", "BudgetNotFound", "NoBudgetConfigured", "Upstream"}

\* the caller's call ends in this step with such a failure
FailsEarly ==
    /\ CallerNext # Caller
    /\ CallerNext.pc = "done"
    /\ ~CallerNext.out.ok
    /\ CallerNext.out.err[1].type \in EarlyFailures

\* the caller's refresh has failed and the caller now calls again for the
\* same bucket
CallsAgain ==
    /\ Caller.pc = "done" /\ ~Caller.out.ok
    /\ Caller.out.err[1].type = "Upstream"
    /\ CallerNext # Caller
    /\ CallerNext.kind = Caller.kind
    /\ CallerNext.cacheKey = Caller.cacheKey

C28_Step ==
    /\ FailsEarly => UNCHANGED <<accountCache, categoryCache, payeeCache>>
    /\ CallsAgain => CallerNext.pc = "await" /\ CallerNext.nUp = 1

\* C28: a resolution that fails because the profile or the budget cannot be
\* resolved, or because the listing call fails, leaves the three caches as
\* they were (no bucket created, replaced or removed), and the next call for
\* the bucket of a failed refresh issues the listing call again
C28_FailureKeepsCaches == [][C28_Step]_vars

\* a refresh of a stale bucket has failed: the bucket is still in place with
\* its old entries and timestamp
C28_Witness ==
    /\ Caller.pc = "done" /\ ~Caller.out.ok
    /\ Caller.out.err[1].type = "Upstream"
    /\ Caller.kind = "account" /\ Caller.t = TtlMs + 1
    /\ CacheHas(accountCache, Caller.cacheKey)
    /\ Len(accountCache[Caller.cacheKey]) = 2
    /\ StampOf(accountCache[Caller.cacheKey]) = 0

-----------------------------------------------------------------------------
(* References that normalize to the empty string                           *)

\* <<kind, ref, budgetRef, profileName>>
BlankWorkload ==
    {<<kind, ref, Undefined, Undefined>> :
        kind \in Kinds, ref \in {"", "  ", " CHK ", "Rent", "zzz"}}

BlankNext ==
    \/ \E w \in BlankWorkload : Start("p1", w[1], w[2], w[3], w[4])
    \/ \E kind \in Kinds : \E r \in Upstream(kind) : Respond("p1", r)
    \/ RespondError("p1")
    \/ clearCaches

\* sequential resolutions of empty and blank references among others
BlankSpec == Init /\ [][BlankNext]_vars

\* the caller's last call searched a bucket for a reference that normalizes
\* to the empty string
SearchedBlank ==
    /\ Searched
    /\ Caller.kind \in {"account", "category"}
    /\ Norm(Caller.ref) = ""

\* C29: for accounts and categories a reference that normalizes to the empty
\* string returns the id of the first-inserted entry of a non-empty bucket,
\* and fails with not-found against an empty bucket
C29_BlankTakesFirst ==
    SearchedBlank =>
        IF SearchedBucket # <<>>
        THEN Caller.out = Ok(SearchedBucket[1].id)
        ELSE /\ ~Caller.out.ok
             /\ Caller.out.err[1].type \in {"AccountNotFound", "CategoryNotFound"}

\* the reference "  " resolved against the account bucket [joint chk, chk]
\* returns the id of "Joint Chk"
C29_Witness ==
    /\ SearchedBlank
    /\ Caller.kind = "account" /\ Caller.ref = "  "
    /\ Len(SearchedBucket) = 2 /\ SearchedBucket[1].key = "joint chk"
    /\ Caller.out = Ok(IdJoint)

-----------------------------------------------------------------------------
(* ynab_categories_write, move: what the two updates leave upstream        *)

\* a move that has returned after its two reads
MoveReturned ==
    /\ MoveRead
    /\ tool.pc = "done"

\* the budgeted amount of the i-th category of the move (1 the source, 2 the
\* target) after the call: the amount of the last update upstream carried
\* out on it, or the amount read when there was none
BudgetedAfter(i) ==
    LET hits == SelectSeq(tool.applied, LAMBDA c : c.id = tool.read[i])
    IN IF hits = <<>> THEN tool.vals[i] ELSE hits[Len(hits)].body[1].amount

\* C30: a move of ynab_categories_write is all-or-nothing: whatever the
\* outcome, either both budgeted amounts are changed or neither is, and the
\* sum of the two budgeted amounts after the call equals the sum before it
C30_MoveAllOrNothing ==
    MoveReturned =>
        /\ Len(tool.applied) \in {0, 2}
        /\ BudgetedAfter(1) + BudgetedAfter(2) = tool.vals[1] + tool.vals[2]

\* the update of the target is rejected after the update of the source was
\* carried out: the handler returns the error, and the source has lost the
\* amount that the target never got
C30_HalfMoved ==
    /\ MoveReturned
    /\ ~tool.out.ok
    /\ tool.read[1] # tool.read[2]
    /\ Len(tool.applied) = 1
    /\ tool.applied[1].id = tool.read[1]
    /\ BudgetedAfter(1) = tool.vals[1] - Requested
    /\ BudgetedAfter(2) = tool.vals[2]

\* a move from a category to itself reports success, and the category ends
\* with the amount added or taken away
C30_SameCategory ==
    /\ MoveReturned
    /\ tool.out.ok
    /\ tool.read[1] = tool.read[2]
    /\ BudgetedAfter(1) # tool.vals[1]

=============================================================================
